---- MODULE Spec2Model ----
(***************************************************************************)
(* State-machine model of the ArtGallery contract (src/unnamed/part_002):  *)
(* galleries, artworks (ERC721 tokens), purchases with royalty / platform  *)
(* fee / seller payouts, reviews and fee administration, together with the *)
(* public functions it inherits from ERC721 and Ownable.                   *)
(*                                                                         *)
(* Foreign code runs inside a call at the three `payable(x).transfer(...)`  *)
(* calls of purchaseArtwork, so purchaseArtwork is split at exactly these   *)
(* calls (pc = "royalty", "fee", "seller" while the respective transfer is  *)
(* in progress), and at the onERC721Received call of safeTransferFrom,      *)
(* which has all gas and finds the contract unlocked: safeTransferFrom is   *)
(* split there, and while it waits (hooks) the recipient calls any public   *)
(* function, safeTransferFrom included.  Every other function is one        *)
(* action.                                                                 *)
(*                                                                         *)
(* A call is a step that leaves its outcome in lastOp, with snap the state  *)
(* it started from and `events` its log entries; the step Return hands the  *)
(* outcome to whoever made the call: the sender of the transaction, which   *)
(* ends (logLen counts the entries logged by the transactions before it),   *)
(* or the onERC721Received in progress, whose safeTransferFrom takes the    *)
(* entries over.                                                           *)
(*                                                                         *)
(* Not represented: the token URI, which is only stored, and               *)
(* block.timestamp (createdAt, timestamp); no function of the contract     *)
(* reads either.                                                           *)
(***************************************************************************)
EXTENDS Integers, Sequences, FiniteSets, TLC

----------------------------------------------------------------------------
\* Bounds of the model.
MaxCalls == 5
\* successful calls in the executions in which every public function is called
MaxCallsAll == 4
MaxTokens == 2
InitBalance == 100

\* Input domains.
Users == {"owner", "artist1", "buyer1"}
GalleryIds == {"", "g1"}
\* all gallery keys that occur: those above and one more, used where two
\* galleries are needed
GalleryKeys == GalleryIds \cup {"g2"}
Names == {"", "N"}
Descriptions == {"D"}
Titles == {"", "T"}
Prices == {0, 40}
NewPrices == {0, 50}
Royalties == {33, 101}
Payments == {40, 50}
\* msg.value of the purchaseArtwork calls made from inside a transfer, where
\* the guard is looked at before the payment
ReentrantPayments == {40}
FeeRates == {30, 101}
Ratings == {0, 2, 4, 5}
Comments == {"c"}
TokenInputs == 1..MaxTokens

\* The deployer: Ownable() makes msg.sender of the constructor the owner().
Deployer == "owner"
\* The contract's own account.
Registry == "registry"
\* address(0)
ZeroAddress == "0x0"
\* the addresses given as arguments where the code compares with address(0)
Addresses == Users \cup {ZeroAddress}
Accounts == Users \cup {Registry, ZeroAddress}

\* Input domains of the inherited functions.
Approved == {"buyer1", ZeroAddress}
Operators == {"buyer1"}
TransferTos == {"buyer1", ZeroAddress}
PassingTransferTos == TransferTos \ {ZeroAddress}
\* the accounts safeTransferFrom is called by and takes tokens from
TransferFroms == {"artist1", "buyer1"}
Datas == {"0x01"}
NewOwners == {"artist1", ZeroAddress}

\* ReentrancyGuard's two values of _status.
NOT_ENTERED == "NOT_ENTERED"
ENTERED == "ENTERED"

DefaultPlatformFee == 25

----------------------------------------------------------------------------
VARIABLES
    tokenIds,       \* Counters.Counter _tokenIds
    owners,         \* ERC721 _owners: token id -> owner (ownerOf)
    artworks,       \* mapping(uint256 => Artwork)
    galleries,      \* mapping(string => Gallery)
    reviews,        \* mapping(uint256 => Review[])
    hasRated,       \* mapping(uint256 => mapping(address => bool)), as a set of pairs
    userArtworks,   \* mapping(address => uint256[])
    userGalleries,  \* mapping(address => string[])
    platformFee,    \* uint256 platformFee
    _owner,         \* Ownable _owner (owner())
    _tokenApprovals,    \* ERC721 _tokenApprovals: token id -> approved address
    _operatorApprovals, \* ERC721 _operatorApprovals, as a set of pairs <<owner, operator>>
    balances,       \* ether balance of every account
    events,         \* log entries emitted by the call in lastOp
    logLen,         \* number of log entries emitted by earlier transactions
    status,         \* ReentrancyGuard _status
    pc,             \* "idle", or the transfer of purchaseArtwork in progress
    frame,          \* locals of the purchaseArtwork call in progress
    snap,           \* storage and balances at the start of the call in lastOp
    paid,           \* transfers made by the purchase in progress / last completed
    lastOp,         \* the call in progress or last completed, and its outcome
                    \* (at: the transfer in progress when it reverted; nested:
                    \* calls made from its onERC721Received took effect)
    reent,          \* the call made from inside the transfer in progress, and its outcome
    hooks,          \* the safeTransferFrom calls whose onERC721Received is in
                    \* progress, outermost first
    nCalls          \* number of calls that took effect (bounded by MaxCalls)

vars == <<tokenIds, owners, artworks, galleries, reviews, hasRated, userArtworks,
          userGalleries, platformFee, _owner, _tokenApprovals, _operatorApprovals,
          balances, events, logLen, status, pc, frame,
          snap, paid, lastOp, reent, hooks, nCalls>>

NoGallery == [name |-> "", curator |-> "", artworkIds |-> <<>>, isActive |-> FALSE,
              description |-> ""]
NoFrame == [tokenId |-> 0, buyer |-> "", value |-> 0, seller |-> "",
            platformFeeAmount |-> 0, royaltyAmount |-> 0]
NoSnap == [tokenIds |-> 0, owners |-> <<>>, artworks |-> <<>>, galleries |-> <<>>,
           reviews |-> <<>>, hasRated |-> {}, userArtworks |-> <<>>,
           userGalleries |-> <<>>, platformFee |-> 0, _owner |-> "",
           _tokenApprovals |-> <<>>, _operatorApprovals |-> {}, balances |-> <<>>]
NoOp == [op |-> "none", caller |-> "", args |-> <<>>, err |-> "none", ret |-> 0,
         at |-> "idle", nested |-> FALSE]

Init ==
    /\ tokenIds = 0
    /\ owners = <<>>
    /\ artworks = <<>>
    /\ galleries = [g \in GalleryKeys |-> NoGallery]
    /\ reviews = <<>>
    /\ hasRated = {}
    /\ userArtworks = [u \in Users |-> <<>>]
    /\ userGalleries = [u \in Users |-> <<>>]
    /\ platformFee = DefaultPlatformFee
    /\ _owner = Deployer
    /\ _tokenApprovals = [id \in TokenInputs |-> ZeroAddress]
    /\ _operatorApprovals = {}
    /\ balances = [a \in Accounts |-> IF a \in Users THEN InitBalance ELSE 0]
    /\ events = <<>>
    /\ logLen = 0
    /\ status = NOT_ENTERED
    /\ pc = "idle"
    /\ frame = NoFrame
    /\ snap = NoSnap
    /\ paid = <<>>
    /\ lastOp = NoOp
    /\ reent = NoOp
    /\ hooks = <<>>
    /\ nCalls = 0

----------------------------------------------------------------------------
\* Helpers.

\* ERC721 _exists(tokenId)
Exists(id) == id \in DOMAIN owners

\* ERC721 ownerOf(tokenId)
ownerOf(id) == owners[id]

\* Ownable owner()
owner == _owner

\* ERC721 getApproved(tokenId), isApprovedForAll(owner, operator)
getApproved(id) == _tokenApprovals[id]
isApprovedForAll(o, operator) == <<o, operator>> \in _operatorApprovals

\* modifier nonReentrant: the call may proceed
\* (variant: the modifier is missing)
nonReentrantFree(st) == TRUE
nonReentrant(st) == st # ENTERED

\* Solidity's truncating uint256 division
Div(a, b) == a \div b

\* (msg.value * platformFee) / 1000
\* (variant: the rate taken as true basis points)
platformFeeAmountBps(value, fee) == Div(value * fee, 10000)
platformFeeAmountOf(value, fee) == Div(value * fee, 1000)

\* (msg.value * artwork.royaltyPercentage) / 100, only when seller != artist
\* (variant: computed on every sale)
royaltyAmountAlways(value, seller, artist, pct) == Div(value * pct, 100)
royaltyAmountOf(value, seller, artist, pct) ==
    IF seller # artist THEN Div(value * pct, 100) ELSE 0

\* artwork.totalRatings > 0 ? artwork.ratingSum / artwork.totalRatings : 0
\* (variant: the quotient rounded up)
avgRatingRoundedUp(a) ==
    IF a.totalRatings > 0 THEN Div(a.ratingSum + a.totalRatings - 1, a.totalRatings) ELSE 0
avgRating(a) == IF a.totalRatings > 0 THEN Div(a.ratingSum, a.totalRatings) ELSE 0

\* array.push(x)
\* (variant: the element is put in front)
pushFront(arr, x) == <<x>> \o arr
push(arr, x) == Append(arr, x)

\* an ether transfer of amt from account a to account b
\* (variant: the amount leaves a and does not arrive)
MoveLost(bal, a, b, amt) == [bal EXCEPT ![a] = bal[a] - amt]
Move(bal, a, b, amt) ==
    IF a = b THEN bal
    ELSE [bal EXCEPT ![a] = bal[a] - amt, ![b] = bal[b] + amt]

Failed(op, caller, args, err) ==
    [op |-> op, caller |-> caller, args |-> args, err |-> err, ret |-> 0,
     at |-> "idle", nested |-> FALSE]
Ok(op, caller, args, ret) ==
    [op |-> op, caller |-> caller, args |-> args, err |-> "ok", ret |-> ret,
     at |-> "idle", nested |-> FALSE]

Pending(op, caller, args) ==
    [op |-> op, caller |-> caller, args |-> args, err |-> "pending", ret |-> 0,
     at |-> "idle", nested |-> FALSE]

\* The contract's storage and the accounts' balances: what a call that
\* reverts leaves as it found it.
World == [tokenIds |-> tokenIds, owners |-> owners, artworks |-> artworks,
          galleries |-> galleries, reviews |-> reviews, hasRated |-> hasRated,
          userArtworks |-> userArtworks, userGalleries |-> userGalleries,
          platformFee |-> platformFee, _owner |-> _owner,
          _tokenApprovals |-> _tokenApprovals,
          _operatorApprovals |-> _operatorApprovals, balances |-> balances]

\* the storage and the balances are those of s
Restore(s) ==
    /\ tokenIds' = s.tokenIds
    /\ owners' = s.owners
    /\ artworks' = s.artworks
    /\ galleries' = s.galleries
    /\ reviews' = s.reviews
    /\ hasRated' = s.hasRated
    /\ userArtworks' = s.userArtworks
    /\ userGalleries' = s.userGalleries
    /\ platformFee' = s.platformFee
    /\ _owner' = s._owner
    /\ _tokenApprovals' = s._tokenApprovals
    /\ _operatorApprovals' = s._operatorApprovals
    /\ balances' = s.balances

\* the innermost safeTransferFrom whose onERC721Received is in progress
Hook == hooks[Len(hooks)]

\* onERC721Received of the innermost safeTransferFrom has control: it has just
\* been called, or a call it made has returned
Receiving == hooks # <<>> /\ pc = "idle" /\ lastOp.err \in {"pending", "none"}

\* a call can start: as a transaction when none is in progress, or from the
\* onERC721Received that has control
CallStarts ==
    /\ pc = "idle"
    /\ nCalls < MaxCalls
    /\ IF hooks = <<>> THEN lastOp.op = "none" ELSE Receiving

\* a call by caller can start: any account sends a transaction; inside
\* onERC721Received the caller is the recipient whose function it is
CallBy(caller) == CallStarts /\ (hooks # <<>> => caller = Hook.to)

----------------------------------------------------------------------------
\* createGallery(galleryId, name, description)            part_002:138-159

\* (variant: an existing gallery is not looked for)
createGalleryCheckNoLookup(galleryId, name) ==
    IF galleryId = "" THEN "InvalidArgument"
    ELSE IF name = "" THEN "InvalidArgument"
    ELSE "ok"
createGalleryCheck(galleryId, name) ==
    IF galleryId = "" THEN "InvalidArgument"
    ELSE IF name = "" THEN "InvalidArgument"
    ELSE IF galleries[galleryId].isActive THEN "AlreadyExists"
    ELSE "ok"

\* lines 147-158: what the call writes and logs
createGalleryEffect(galleryId, name, description, caller) ==
    /\ galleries' = [galleries EXCEPT ![galleryId] =
          [name |-> name, curator |-> caller, artworkIds |-> <<>>,
           isActive |-> TRUE, description |-> description]]
    /\ userGalleries' = [userGalleries EXCEPT ![caller] = push(@, galleryId)]
    /\ events' = Append(events, [ev |-> "GalleryCreated", galleryId |-> galleryId,
                                 name |-> name, curator |-> caller])

createGallery(galleryId, name, description, caller) ==
    /\ CallBy(caller)
    /\ UNCHANGED hooks
    /\ snap' = World
    /\ LET err == createGalleryCheck(galleryId, name)
           args == <<galleryId, name, description>>
       IN IF err # "ok"
          THEN /\ lastOp' = Failed("createGallery", caller, args, err)
               /\ UNCHANGED <<galleries, userGalleries, events, nCalls>>
          ELSE /\ createGalleryEffect(galleryId, name, description, caller)
               /\ lastOp' = Ok("createGallery", caller, args, 0)
               /\ nCalls' = nCalls + 1
    /\ UNCHANGED <<_owner, _tokenApprovals, _operatorApprovals>>
    /\ UNCHANGED <<tokenIds, owners, artworks, reviews, hasRated, userArtworks,
                   platformFee, balances, logLen, status, pc, frame, paid, reent>>

----------------------------------------------------------------------------
\* createArtwork(title, tokenURI, price, galleryId, royaltyPercentage)
\*                                                        part_002:68-103

\* (variant: the royalty percentage is not limited)
createArtworkCheckAnyRoyalty(st, title, price, galleryId, royaltyPercentage) ==
    IF ~nonReentrant(st) THEN "ReentrantCall"
    ELSE IF title = "" THEN "InvalidArgument"
    ELSE IF ~(price > 0) THEN "InvalidArgument"
    ELSE IF ~galleries[galleryId].isActive THEN "NotFound"
    ELSE "ok"
createArtworkCheck(st, title, price, galleryId, royaltyPercentage) ==
    IF ~nonReentrant(st) THEN "ReentrantCall"
    ELSE IF title = "" THEN "InvalidArgument"
    ELSE IF ~(price > 0) THEN "InvalidArgument"
    ELSE IF ~galleries[galleryId].isActive THEN "NotFound"
    ELSE IF ~(royaltyPercentage <= 100) THEN "InvalidArgument"
    ELSE "ok"

\* Artwork({title: ..., artist: msg.sender, price: ..., forSale: true, ...})
\* (variant: the artwork is created unlisted)
ArtworkUnlisted(title, artist, price, galleryId, royaltyPercentage) ==
    [title |-> title, artist |-> artist, price |-> price, forSale |-> FALSE,
     totalRatings |-> 0, ratingSum |-> 0, galleryId |-> galleryId,
     royaltyPercentage |-> royaltyPercentage]
Artwork(title, artist, price, galleryId, royaltyPercentage) ==
    [title |-> title, artist |-> artist, price |-> price, forSale |-> TRUE,
     totalRatings |-> 0, ratingSum |-> 0, galleryId |-> galleryId,
     royaltyPercentage |-> royaltyPercentage]

\* _tokenIds.increment(); newTokenId = _tokenIds.current()
\* (variant: current() without increment())
nextTokenIdNoIncrement(n) == n
nextTokenId(n) == n + 1

\* galleries[galleryId].artworkIds.push(newTokenId)
\* (variant: the id is pushed to the list of every gallery key)
galleryPushAll(gals, galleryId, newTokenId) ==
    [g \in DOMAIN gals |-> [gals[g] EXCEPT !.artworkIds = push(@, newTokenId)]]
galleryPush(gals, galleryId, newTokenId) ==
    [gals EXCEPT ![galleryId].artworkIds = push(@, newTokenId)]

\* lines 80-101: what the call writes and logs
createArtworkEffect(title, price, galleryId, royaltyPercentage, caller) ==
    LET newTokenId == nextTokenId(tokenIds)
    IN /\ tokenIds' = newTokenId
       \* _mint(msg.sender, newTokenId)
       /\ owners' = [i \in DOMAIN owners \cup {newTokenId} |->
                       IF i = newTokenId THEN caller ELSE owners[i]]
       /\ artworks' = [i \in DOMAIN artworks \cup {newTokenId} |->
                       IF i = newTokenId
                       THEN Artwork(title, caller, price, galleryId, royaltyPercentage)
                       ELSE artworks[i]]
       /\ reviews' = [i \in DOMAIN reviews \cup {newTokenId} |->
                       IF i = newTokenId THEN <<>> ELSE reviews[i]]
       /\ galleries' = galleryPush(galleries, galleryId, newTokenId)
       /\ userArtworks' = [userArtworks EXCEPT ![caller] = push(@, newTokenId)]
       /\ events' = Append(events, [ev |-> "ArtworkCreated", tokenId |-> newTokenId,
                                    title |-> title, artist |-> caller, price |-> price])

createArtwork(title, price, galleryId, royaltyPercentage, caller) ==
    /\ CallBy(caller)
    /\ UNCHANGED hooks
    /\ snap' = World
    /\ tokenIds < MaxTokens
    /\ LET err == createArtworkCheck(status, title, price, galleryId, royaltyPercentage)
           args == <<title, price, galleryId, royaltyPercentage>>
           newTokenId == nextTokenId(tokenIds)
       IN IF err # "ok"
          THEN /\ lastOp' = Failed("createArtwork", caller, args, err)
               /\ UNCHANGED <<tokenIds, owners, artworks, galleries, reviews,
                              userArtworks, events, nCalls>>
          ELSE /\ createArtworkEffect(title, price, galleryId, royaltyPercentage, caller)
               /\ lastOp' = Ok("createArtwork", caller, args, newTokenId)
               /\ nCalls' = nCalls + 1
    /\ UNCHANGED <<_owner, _tokenApprovals, _operatorApprovals>>
    /\ UNCHANGED <<hasRated, userGalleries, platformFee, balances, logLen, status, pc, frame,
                   paid, reent>>

----------------------------------------------------------------------------
\* addReview(tokenId, comment, rating)                    part_002:164-182

\* (variants: the range of the rating is not checked; the hasRated index is
\* not consulted)
addReviewCheckNoRange(tokenId, rating, caller) ==
    IF ~Exists(tokenId) THEN "NotFound"
    ELSE IF <<tokenId, caller>> \in hasRated THEN "AlreadyRated"
    ELSE "ok"
addReviewCheckNoIndex(tokenId, rating, caller) ==
    IF ~Exists(tokenId) THEN "NotFound"
    ELSE IF ~(rating >= 1 /\ rating <= 5) THEN "InvalidArgument"
    ELSE "ok"

addReviewCheck(tokenId, rating, caller) ==
    IF ~Exists(tokenId) THEN "NotFound"
    ELSE IF ~(rating >= 1 /\ rating <= 5) THEN "InvalidArgument"
    ELSE IF <<tokenId, caller>> \in hasRated THEN "AlreadyRated"
    ELSE "ok"

\* lines 169-181: what the call writes and logs
\* (variant: the rating is stored and counted and not added to ratingSum)
addReviewEffectNoSum(tokenId, comment, rating, caller) ==
    /\ reviews' = [reviews EXCEPT ![tokenId] =
          Append(@, [reviewer |-> caller, comment |-> comment, rating |-> rating])]
    /\ artworks' = [artworks EXCEPT ![tokenId].totalRatings = @ + 1]
    /\ hasRated' = hasRated \cup {<<tokenId, caller>>}
    /\ events' = Append(events, [ev |-> "ReviewAdded", tokenId |-> tokenId,
                                 reviewer |-> caller, comment |-> comment,
                                 rating |-> rating])
addReviewEffect(tokenId, comment, rating, caller) ==
    /\ reviews' = [reviews EXCEPT ![tokenId] =
          Append(@, [reviewer |-> caller, comment |-> comment, rating |-> rating])]
    /\ artworks' = [artworks EXCEPT ![tokenId].totalRatings = @ + 1,
                                    ![tokenId].ratingSum = @ + rating]
    /\ hasRated' = hasRated \cup {<<tokenId, caller>>}
    /\ events' = Append(events, [ev |-> "ReviewAdded", tokenId |-> tokenId,
                                 reviewer |-> caller, comment |-> comment,
                                 rating |-> rating])

addReview(tokenId, comment, rating, caller) ==
    /\ CallBy(caller)
    /\ UNCHANGED hooks
    /\ snap' = World
    /\ LET err == addReviewCheck(tokenId, rating, caller)
           args == <<tokenId, comment, rating>>
       IN IF err # "ok"
          THEN /\ lastOp' = Failed("addReview", caller, args, err)
               /\ UNCHANGED <<artworks, reviews, hasRated, events, nCalls>>
          ELSE /\ addReviewEffect(tokenId, comment, rating, caller)
               /\ lastOp' = Ok("addReview", caller, args, 0)
               /\ nCalls' = nCalls + 1
    /\ UNCHANGED <<_owner, _tokenApprovals, _operatorApprovals>>
    /\ UNCHANGED <<tokenIds, owners, galleries, userArtworks, userGalleries,
                   platformFee, balances, logLen, status, pc, frame, paid, reent>>

----------------------------------------------------------------------------
\* getArtwork(tokenId) view                               part_002:184-205
\* A view reads neither msg.sender nor msg.value; the call is recorded with
\* the tuple it returns.

getArtworkCheck(tokenId) ==
    IF ~Exists(tokenId) THEN "NotFound" ELSE "ok"

getArtwork(tokenId) ==
    /\ CallStarts
    /\ UNCHANGED hooks
    /\ snap' = World
    /\ LET err == getArtworkCheck(tokenId)
           artwork == artworks[tokenId]
       IN IF err # "ok"
          THEN lastOp' = Failed("getArtwork", "", <<tokenId>>, err)
          ELSE lastOp' = Ok("getArtwork", "", <<tokenId>>,
                            [title |-> artwork.title, artist |-> artwork.artist,
                             price |-> artwork.price, forSale |-> artwork.forSale,
                             avgRating |-> avgRating(artwork),
                             galleryId |-> artwork.galleryId,
                             royaltyPercentage |-> artwork.royaltyPercentage])
    /\ UNCHANGED <<_owner, _tokenApprovals, _operatorApprovals>>
    /\ UNCHANGED <<tokenIds, owners, artworks, galleries, reviews, hasRated,
                   userArtworks, userGalleries, platformFee, balances, events, logLen,
                   status, pc, frame, paid, reent, nCalls>>

\* getUserArtworks(user) view                             part_002:212-214
getUserArtworks(user) == userArtworks[user]

\* getGalleryArtworks(galleryId) view                       part_002:207-210
\* (variant: without the require)
getGalleryArtworksCheckNone(galleryId) == "ok"
getGalleryArtworksCheck(galleryId) ==
    IF ~galleries[galleryId].isActive THEN "NotFound" ELSE "ok"

getGalleryArtworks(galleryId) ==
    /\ CallStarts
    /\ UNCHANGED hooks
    /\ snap' = World
    /\ LET err == getGalleryArtworksCheck(galleryId)
       IN IF err # "ok"
          THEN lastOp' = Failed("getGalleryArtworks", "", <<galleryId>>, err)
          ELSE lastOp' = Ok("getGalleryArtworks", "", <<galleryId>>,
                            galleries[galleryId].artworkIds)
    /\ UNCHANGED <<_owner, _tokenApprovals, _operatorApprovals>>
    /\ UNCHANGED <<tokenIds, owners, artworks, galleries, reviews, hasRated,
                   userArtworks, userGalleries, platformFee, balances, events, logLen,
                   status, pc, frame, paid, reent, nCalls>>

----------------------------------------------------------------------------
\* updatePlatformFee(newFee) onlyOwner                    part_002:220-223

\* (variant: without the onlyOwner modifier)
updatePlatformFeeCheckAnyCaller(newFee, caller) ==
    IF ~(newFee <= 100) THEN "InvalidArgument"
    ELSE "ok"
updatePlatformFeeCheck(newFee, caller) ==
    IF caller # owner THEN "Unauthorized"
    ELSE IF ~(newFee <= 100) THEN "InvalidArgument"
    ELSE "ok"

updatePlatformFee(newFee, caller) ==
    /\ CallBy(caller)
    /\ UNCHANGED hooks
    /\ snap' = World
    /\ LET err == updatePlatformFeeCheck(newFee, caller)
       IN IF err # "ok"
          THEN /\ lastOp' = Failed("updatePlatformFee", caller, <<newFee>>, err)
               /\ UNCHANGED <<platformFee, nCalls>>
          ELSE /\ platformFee' = newFee
               /\ lastOp' = Ok("updatePlatformFee", caller, <<newFee>>, 0)
               /\ nCalls' = nCalls + 1
    /\ UNCHANGED <<_owner, _tokenApprovals, _operatorApprovals>>
    /\ UNCHANGED <<tokenIds, owners, artworks, galleries, reviews, hasRated,
                   userArtworks, userGalleries, balances, events, logLen, status, pc,
                   frame, paid, reent>>

----------------------------------------------------------------------------
\* updateArtworkPrice(tokenId, newPrice): called by the tests
\* (src/test/ArtGallery.test.js:135) and announced by event PriceUpdated
\* (part_002:60); the contract source under src/ does not define it.  Modelled
\* from the specification, section 4.2 updatePrice.

\* (variant: the caller is compared with the asset's creator, not its owner)
updateArtworkPriceCheckArtist(tokenId, newPrice, caller) ==
    IF ~Exists(tokenId) THEN "NotFound"
    ELSE IF caller # artworks[tokenId].artist THEN "Unauthorized"
    ELSE IF ~(newPrice > 0) THEN "InvalidArgument"
    ELSE "ok"
\* (variant: the caller is not compared with the owner)
updateArtworkPriceCheckAnyone(tokenId, newPrice, caller) ==
    IF ~Exists(tokenId) THEN "NotFound"
    ELSE IF ~(newPrice > 0) THEN "InvalidArgument"
    ELSE "ok"
updateArtworkPriceCheck(tokenId, newPrice, caller) ==
    IF ~Exists(tokenId) THEN "NotFound"
    ELSE IF caller # ownerOf(tokenId) THEN "Unauthorized"
    ELSE IF ~(newPrice > 0) THEN "InvalidArgument"
    ELSE "ok"

updateArtworkPriceEffect(tokenId, newPrice) ==
    /\ artworks' = [artworks EXCEPT ![tokenId].price = newPrice,
                                    ![tokenId].forSale = TRUE]
    /\ events' = Append(events, [ev |-> "PriceUpdated", tokenId |-> tokenId,
                                 newPrice |-> newPrice])

updateArtworkPrice(tokenId, newPrice, caller) ==
    /\ CallBy(caller)
    /\ UNCHANGED hooks
    /\ snap' = World
    /\ LET err == updateArtworkPriceCheck(tokenId, newPrice, caller)
           args == <<tokenId, newPrice>>
       IN IF err # "ok"
          THEN /\ lastOp' = Failed("updateArtworkPrice", caller, args, err)
               /\ UNCHANGED <<artworks, events, nCalls>>
          ELSE /\ updateArtworkPriceEffect(tokenId, newPrice)
               /\ lastOp' = Ok("updateArtworkPrice", caller, args, 0)
               /\ nCalls' = nCalls + 1
    /\ UNCHANGED <<_owner, _tokenApprovals, _operatorApprovals>>
    /\ UNCHANGED <<tokenIds, owners, galleries, reviews, hasRated, userArtworks,
                   userGalleries, platformFee, balances, logLen, status, pc, frame,
                   paid, reent>>

----------------------------------------------------------------------------
\* purchaseArtwork(tokenId) payable nonReentrant          part_002:108-133

\* (variants: the forSale requirement missing; the payment compared with >)
purchaseArtworkCheckNoSaleFlag(st, tokenId, value) ==
    IF ~nonReentrant(st) THEN "ReentrantCall"
    ELSE IF ~Exists(tokenId) THEN "NotFound"
    ELSE IF ~(value >= artworks[tokenId].price) THEN "InsufficientPayment"
    ELSE "ok"
purchaseArtworkCheckStrict(st, tokenId, value) ==
    IF ~nonReentrant(st) THEN "ReentrantCall"
    ELSE IF ~Exists(tokenId) THEN "NotFound"
    ELSE IF ~artworks[tokenId].forSale THEN "NotForSale"
    ELSE IF ~(value > artworks[tokenId].price) THEN "InsufficientPayment"
    ELSE "ok"
purchaseArtworkCheck(st, tokenId, value) ==
    IF ~nonReentrant(st) THEN "ReentrantCall"
    ELSE IF ~Exists(tokenId) THEN "NotFound"
    ELSE IF ~artworks[tokenId].forSale THEN "NotForSale"
    ELSE IF ~(value >= artworks[tokenId].price) THEN "InsufficientPayment"
    ELSE "ok"

\* artwork.forSale = false
\* (variant: the flag is left as it is)
UnlistedNot(arts, tokenId) == arts
Unlisted(arts, tokenId) == [arts EXCEPT ![tokenId].forSale = FALSE]

\* ERC721 _transfer(from, to, tokenId)
\* (variant: the token stays with its owner)
Transfer721Stays(own, to, tokenId) == own
Transfer721(own, to, tokenId) == [own EXCEPT ![tokenId] = to]
\* ERC721 _transfer: delete _tokenApprovals[tokenId]
ClearApproval(appr, tokenId) == [appr EXCEPT ![tokenId] = ZeroAddress]

\* The recipient and the amount of the transfer in progress.
Recipient ==
    CASE pc = "royalty" -> artworks[frame.tokenId].artist
      [] pc = "fee"     -> owner
      [] pc = "seller"  -> frame.seller
      [] OTHER          -> ""
Amount ==
    CASE pc = "royalty" -> frame.royaltyAmount
      [] pc = "fee"     -> frame.platformFeeAmount
      [] pc = "seller"  -> frame.value - frame.platformFeeAmount - frame.royaltyAmount
      [] OTHER          -> 0

\* Lines 108-121: the checks, the two amounts, and the start of the first
\* outward transfer (the royalty on a secondary sale; otherwise the ERC721
\* transfer of line 125 is done and the fee transfer of line 127 starts).
purchaseArtwork(tokenId, value, caller) ==
    /\ CallBy(caller)
    /\ UNCHANGED hooks
    /\ snap' = World
    /\ balances[caller] >= value
    /\ LET err == purchaseArtworkCheck(status, tokenId, value)
           args == <<tokenId, value>>
       IN IF err # "ok"
          THEN /\ lastOp' = Failed("purchaseArtwork", caller, args, err)
               /\ UNCHANGED <<owners, _tokenApprovals, balances, status, pc, frame>>
          ELSE LET artwork == artworks[tokenId]
                   seller == ownerOf(tokenId)
                   fee == platformFeeAmountOf(value, platformFee)
                   roy == royaltyAmountOf(value, seller, artwork.artist,
                                          artwork.royaltyPercentage)
               IN /\ status' = ENTERED
                  /\ balances' = Move(balances, caller, Registry, value)
                  /\ frame' = [tokenId |-> tokenId, buyer |-> caller, value |-> value,
                               seller |-> seller, platformFeeAmount |-> fee,
                               royaltyAmount |-> roy]
                  /\ lastOp' = Pending("purchaseArtwork", caller, args)
                  /\ IF seller # artwork.artist
                     THEN /\ pc' = "royalty"
                          /\ UNCHANGED <<owners, _tokenApprovals>>
                     ELSE /\ pc' = "fee"
                          /\ owners' = Transfer721(owners, caller, tokenId)
                          /\ _tokenApprovals' = ClearApproval(_tokenApprovals, tokenId)
    /\ UNCHANGED <<_owner, _operatorApprovals>>
    /\ UNCHANGED <<tokenIds, artworks, galleries, reviews, hasRated, userArtworks,
                   userGalleries, platformFee, events, logLen, paid, reent, nCalls>>

\* The whole call reverts: storage and balances are those at its start,
\* and nothing it logged or paid remains.
\* (variant: the payments already made are not undone)
RevertKeepsPayments(err) ==
    /\ owners' = snap.owners
    /\ _tokenApprovals' = snap._tokenApprovals
    /\ artworks' = snap.artworks
    /\ events' = <<>>
    /\ status' = NOT_ENTERED
    /\ pc' = "idle"
    /\ frame' = NoFrame
    /\ reent' = NoOp
    /\ lastOp' = [lastOp EXCEPT !.err = err, !.at = pc]
    /\ UNCHANGED hooks
    /\ UNCHANGED <<_owner, _operatorApprovals>>
    /\ UNCHANGED <<tokenIds, galleries, reviews, hasRated, userArtworks, userGalleries,
                   platformFee, balances, paid, logLen, snap, nCalls>>
Revert(err) ==
    /\ owners' = snap.owners
    /\ _tokenApprovals' = snap._tokenApprovals
    /\ artworks' = snap.artworks
    /\ balances' = snap.balances
    /\ events' = <<>>
    /\ paid' = <<>>
    /\ status' = NOT_ENTERED
    /\ pc' = "idle"
    /\ frame' = NoFrame
    /\ reent' = NoOp
    /\ lastOp' = [lastOp EXCEPT !.err = err, !.at = pc]
    /\ UNCHANGED hooks
    /\ UNCHANGED <<_owner, _operatorApprovals>>
    /\ UNCHANGED <<tokenIds, galleries, reviews, hasRated, userArtworks, userGalleries,
                   platformFee, logLen, snap, nCalls>>

\* Lines 121-125: the royalty transfer returns; RoyaltyPaid is emitted, the
\* token moves to the buyer, and the fee transfer of line 127 starts.
RoyaltyTransferred ==
    /\ pc = "royalty"
    /\ UNCHANGED hooks
    /\ balances[Registry] >= Amount
    /\ balances' = Move(balances, Registry, Recipient, Amount)
    /\ paid' = Append(paid, [to |-> Recipient, amount |-> Amount, what |-> "royalty"])
    /\ events' = Append(events, [ev |-> "RoyaltyPaid", tokenId |-> frame.tokenId,
                                 artist |-> Recipient, amount |-> Amount])
    /\ owners' = Transfer721(owners, frame.buyer, frame.tokenId)
    /\ _tokenApprovals' = ClearApproval(_tokenApprovals, frame.tokenId)
    /\ pc' = "fee"
    /\ reent' = NoOp
    /\ UNCHANGED <<_owner, _operatorApprovals>>
    /\ UNCHANGED <<tokenIds, artworks, galleries, reviews, hasRated, userArtworks,
                   userGalleries, platformFee, logLen, status, frame, snap, lastOp,
                   nCalls>>

\* Lines 127-128: the fee transfer returns; the seller's amount is computed
\* (checked subtraction) and the transfer to the seller starts.
FeeTransferred ==
    /\ pc = "fee"
    /\ balances[Registry] >= Amount
    /\ IF frame.value - frame.platformFeeAmount - frame.royaltyAmount < 0
       THEN Revert("Panic")
       ELSE /\ balances' = Move(balances, Registry, Recipient, Amount)
            /\ paid' = Append(paid, [to |-> Recipient, amount |-> Amount, what |-> "fee"])
            /\ pc' = "seller"
            /\ reent' = NoOp
            /\ UNCHANGED <<tokenIds, owners, artworks, galleries, reviews, hasRated,
                           userArtworks, userGalleries, platformFee, events, logLen,
                           status, frame, snap, lastOp, nCalls>>
            /\ UNCHANGED <<_owner, _tokenApprovals, _operatorApprovals, hooks>>

\* Lines 128-133: the transfer to the seller returns; forSale is cleared,
\* ArtworkSold is emitted and the call returns.
SellerTransferred ==
    /\ pc = "seller"
    /\ UNCHANGED hooks
    /\ balances[Registry] >= Amount
    /\ balances' = Move(balances, Registry, Recipient, Amount)
    /\ paid' = Append(paid, [to |-> Recipient, amount |-> Amount, what |-> "seller"])
    /\ artworks' = Unlisted(artworks, frame.tokenId)
    /\ events' = Append(events, [ev |-> "ArtworkSold", tokenId |-> frame.tokenId,
                                 from |-> frame.seller, to |-> frame.buyer,
                                 price |-> frame.value])
    /\ status' = NOT_ENTERED
    /\ pc' = "idle"
    /\ lastOp' = [lastOp EXCEPT !.err = "ok"]
    /\ nCalls' = nCalls + 1
    /\ reent' = NoOp
    /\ UNCHANGED <<_owner, _tokenApprovals, _operatorApprovals>>
    /\ UNCHANGED <<tokenIds, owners, galleries, reviews, hasRated, userArtworks,
                   userGalleries, platformFee, logLen, frame, snap>>

\* A transfer in progress fails (the recipient rejects the payment, or the
\* contract's balance does not cover it): `transfer` reverts the transaction.
\* (variant: the failure is reported but nothing is undone, as with an
\* unchecked `send`)
TransferFailsKeepsEffects ==
    /\ pc # "idle"
    /\ Recipient = ZeroAddress => balances[Registry] < Amount
    /\ status' = NOT_ENTERED
    /\ pc' = "idle"
    /\ frame' = NoFrame
    /\ reent' = NoOp
    /\ lastOp' = [lastOp EXCEPT !.err = "TransferFailed", !.at = pc]
    /\ UNCHANGED hooks
    /\ UNCHANGED <<_owner, _tokenApprovals, _operatorApprovals>>
    /\ UNCHANGED <<tokenIds, owners, artworks, galleries, reviews, hasRated,
                   userArtworks, userGalleries, platformFee, balances, events, logLen,
                   paid, snap, nCalls>>
TransferFails ==
    /\ pc # "idle"
    /\ Recipient = ZeroAddress => balances[Registry] < Amount
    /\ Revert("TransferFailed")

----------------------------------------------------------------------------
\* Calls made by the recipient of the transfer in progress.  createArtwork
\* and purchaseArtwork are nonReentrant and are rejected on entry.
\* createGallery, addReview and updatePlatformFee carry no modifier against
\* re-entry; what stops them is the gas: payable(x).transfer(amount)
\* (part_002:121, 127, 128) passes 2300 gas to the recipient's code, and a
\* storage write fails whenever no more than 2300 gas is left, so a call made
\* from the recipient's code passes its requires at best and then runs out of
\* gas at its first write, which undoes the call.
\* (variant: the transfer passes on all the gas, as x.call{value: amount}("")
\* does)
stipendPaysForWriteAllGas == TRUE
stipendPaysForWrite == FALSE

\* the outcomes of a re-entrant call whose requires give err.  With the
\* stipend the call has at most 2300 gas, less what the recipient's code has
\* spent and the 1/64 it keeps: a call that passes its requires runs out of
\* gas at its first write; one that fails a require reverts with the
\* require's reason when the storage read on the way is of slots already
\* accessed in the transaction (100 gas each: read or written by the purchase
\* before this transfer, or named in the transaction's access list) and the
\* recipient has left gas enough, and runs out of gas before the require
\* otherwise (a first access costs 2100).  Which it is depends on the
\* transaction and on the recipient's code; either way nothing is written.
ReenterErr(err) ==
    IF stipendPaysForWrite THEN {err}
    ELSE IF err = "ok" THEN {"OutOfGas"}
    ELSE {err, "OutOfGas"}

----------------------------------------------------------------------------
\* A call of purchaseArtwork made by the recipient of the transfer in progress
\* (from its receive function; reent records it until the transfer returns).
\* nonReentrant rejects it, when the call gets that far: _status is a slot the
\* purchase has written, so its read is cheap, but the recipient may have left
\* too little of the 2300 gas for the call, which then runs out of gas.  Were
\* the call let through, it would run lines 109-132 to completion inside the
\* transfer (the gas of that run is left out of account: the guard is what
\* the property is about).
ReenterPurchaseArtwork(tokenId, value) ==
    /\ pc # "idle"
    /\ UNCHANGED hooks
    /\ reent.op = "none"
    /\ Recipient # ZeroAddress
    /\ balances[Recipient] >= value
    /\ LET caller == Recipient
           err == purchaseArtworkCheck(status, tokenId, value)
           args == <<tokenId, value>>
       IN IF err # "ok"
          THEN /\ \E e \in ReenterErr(err) :
                     reent' = Failed("purchaseArtwork", caller, args, e)
               /\ UNCHANGED <<owners, _tokenApprovals, artworks, balances, events, paid>>
          ELSE LET artwork == artworks[tokenId]
                   seller == ownerOf(tokenId)
                   fee == platformFeeAmountOf(value, platformFee)
                   roy == royaltyAmountOf(value, seller, artwork.artist,
                                          artwork.royaltyPercentage)
                   rest == value - fee - roy
                   b0 == Move(balances, caller, Registry, value)
                   b1 == Move(b0, Registry, artwork.artist, roy)
                   b2 == Move(b1, Registry, owner, fee)
                   b3 == Move(b2, Registry, seller, rest)
                   pRoy == IF seller # artwork.artist
                           THEN <<[to |-> artwork.artist, amount |-> roy,
                                   what |-> "royalty"]>>
                           ELSE <<>>
                   eRoy == IF seller # artwork.artist
                           THEN <<[ev |-> "RoyaltyPaid", tokenId |-> tokenId,
                                   artist |-> artwork.artist, amount |-> roy]>>
                           ELSE <<>>
               IN IF rest < 0
                  THEN /\ reent' = Failed("purchaseArtwork", caller, args, "Panic")
                       /\ UNCHANGED <<owners, _tokenApprovals, artworks, balances, events, paid>>
                  ELSE /\ balances' = b3
                       /\ owners' = Transfer721(owners, caller, tokenId)
                       /\ _tokenApprovals' = ClearApproval(_tokenApprovals, tokenId)
                       /\ artworks' = Unlisted(artworks, tokenId)
                       /\ paid' = paid \o pRoy \o
                                  <<[to |-> owner, amount |-> fee, what |-> "fee"],
                                    [to |-> seller, amount |-> rest, what |-> "seller"]>>
                       /\ events' = events \o eRoy \o
                                    <<[ev |-> "ArtworkSold", tokenId |-> tokenId,
                                       from |-> seller, to |-> caller, price |-> value]>>
                       /\ reent' = Ok("purchaseArtwork", caller, args, 0)
    /\ UNCHANGED <<_owner, _operatorApprovals>>
    /\ UNCHANGED <<tokenIds, galleries, reviews, hasRated, userArtworks, userGalleries,
                   platformFee, logLen, status, pc, frame, snap, lastOp, nCalls>>

----------------------------------------------------------------------------
\* Calls of the other functions made by the recipient of the transfer in
\* progress.
\* (address(0) has no code and calls nothing)
Reentry == pc # "idle" /\ reent.op = "none" /\ Recipient # ZeroAddress

ReenterCreateGallery(galleryId, name, description) ==
    /\ Reentry
    /\ UNCHANGED hooks
    /\ LET caller == Recipient
           req == createGalleryCheck(galleryId, name)
           args == <<galleryId, name, description>>
       IN \E err \in ReenterErr(req) :
          IF err # "ok"
          THEN /\ reent' = Failed("createGallery", caller, args, err)
               /\ UNCHANGED <<galleries, userGalleries, events>>
          ELSE /\ createGalleryEffect(galleryId, name, description, caller)
               /\ reent' = Ok("createGallery", caller, args, 0)
    /\ UNCHANGED <<_owner, _tokenApprovals, _operatorApprovals>>
    /\ UNCHANGED <<tokenIds, owners, artworks, reviews, hasRated, userArtworks,
                   platformFee, balances, logLen, status, pc, frame, snap, paid, lastOp,
                   nCalls>>

ReenterCreateArtwork(title, price, galleryId, royaltyPercentage) ==
    /\ Reentry
    /\ UNCHANGED hooks
    /\ tokenIds < MaxTokens
    /\ LET caller == Recipient
           req == createArtworkCheck(status, title, price, galleryId,
                                     royaltyPercentage)
           args == <<title, price, galleryId, royaltyPercentage>>
       IN \E err \in ReenterErr(req) :
          IF err # "ok"
          THEN /\ reent' = Failed("createArtwork", caller, args, err)
               /\ UNCHANGED <<tokenIds, owners, artworks, galleries, reviews,
                              userArtworks, events>>
          ELSE /\ createArtworkEffect(title, price, galleryId, royaltyPercentage, caller)
               /\ reent' = Ok("createArtwork", caller, args, nextTokenId(tokenIds))
    /\ UNCHANGED <<_owner, _tokenApprovals, _operatorApprovals>>
    /\ UNCHANGED <<hasRated, userGalleries, platformFee, balances, logLen, status, pc,
                   frame, snap, paid, lastOp, nCalls>>

ReenterAddReview(tokenId, comment, rating) ==
    /\ Reentry
    /\ UNCHANGED hooks
    /\ LET caller == Recipient
           req == addReviewCheck(tokenId, rating, caller)
           args == <<tokenId, comment, rating>>
       IN \E err \in ReenterErr(req) :
          IF err # "ok"
          THEN /\ reent' = Failed("addReview", caller, args, err)
               /\ UNCHANGED <<artworks, reviews, hasRated, events>>
          ELSE /\ addReviewEffect(tokenId, comment, rating, caller)
               /\ reent' = Ok("addReview", caller, args, 0)
    /\ UNCHANGED <<_owner, _tokenApprovals, _operatorApprovals>>
    /\ UNCHANGED <<tokenIds, owners, galleries, userArtworks, userGalleries,
                   platformFee, balances, logLen, status, pc, frame, snap, paid, lastOp,
                   nCalls>>

ReenterUpdatePlatformFee(newFee) ==
    /\ Reentry
    /\ UNCHANGED hooks
    /\ LET caller == Recipient
           req == updatePlatformFeeCheck(newFee, caller)
       IN \E err \in ReenterErr(req) :
          IF err # "ok"
          THEN /\ reent' = Failed("updatePlatformFee", caller, <<newFee>>, err)
               /\ UNCHANGED platformFee
          ELSE /\ platformFee' = newFee
               /\ reent' = Ok("updatePlatformFee", caller, <<newFee>>, 0)
    /\ UNCHANGED <<_owner, _tokenApprovals, _operatorApprovals>>
    /\ UNCHANGED <<tokenIds, owners, artworks, galleries, reviews, hasRated,
                   userArtworks, userGalleries, balances, events, logLen, status, pc,
                   frame, snap, paid, lastOp, nCalls>>

\* (updateArtworkPrice: as modelled from the specification, see above)
ReenterUpdateArtworkPrice(tokenId, newPrice) ==
    /\ Reentry
    /\ UNCHANGED hooks
    /\ LET caller == Recipient
           req == updateArtworkPriceCheck(tokenId, newPrice, caller)
           args == <<tokenId, newPrice>>
       IN \E err \in ReenterErr(req) :
          IF err # "ok"
          THEN /\ reent' = Failed("updateArtworkPrice", caller, args, err)
               /\ UNCHANGED <<artworks, events>>
          ELSE /\ updateArtworkPriceEffect(tokenId, newPrice)
               /\ reent' = Ok("updateArtworkPrice", caller, args, 0)
    /\ UNCHANGED <<_owner, _tokenApprovals, _operatorApprovals>>
    /\ UNCHANGED <<tokenIds, owners, galleries, reviews, hasRated, userArtworks,
                   userGalleries, platformFee, balances, logLen, status, pc, frame,
                   snap, paid, lastOp, nCalls>>

----------------------------------------------------------------------------
\* The public functions ArtGallery inherits and does not override
\* (part_002:4-6, 14): ERC721's approve, setApprovalForAll, transferFrom and
\* the two forms of safeTransferFrom, Ownable's transferOwnership and
\* renounceOwnership, as in @openzeppelin/contracts 4.x.  None touches the
\* artwork record, the galleries, the reviews or userArtworks.  The events these
\* functions emit (Approval, ApprovalForAll, Transfer, OwnershipTransferred) are
\* not represented, as the Transfer events of _mint and _transfer are not.

\* ERC721 _isApprovedOrOwner(spender, tokenId), for an existing token
isApprovedOrOwner(spender, tokenId) ==
    \/ spender = ownerOf(tokenId)
    \/ isApprovedForAll(ownerOf(tokenId), spender)
    \/ getApproved(tokenId) = spender

\* approve(to, tokenId)
approveCheck(to, tokenId, caller) ==
    IF ~Exists(tokenId) THEN "NotFound"
    ELSE IF to = ownerOf(tokenId) THEN "InvalidArgument"
    ELSE IF ~(caller = ownerOf(tokenId) \/ isApprovedForAll(ownerOf(tokenId), caller))
         THEN "Unauthorized"
    ELSE "ok"

approve(to, tokenId, caller) ==
    /\ CallBy(caller)
    /\ UNCHANGED hooks
    /\ snap' = World
    /\ LET err == approveCheck(to, tokenId, caller)
           args == <<to, tokenId>>
       IN IF err # "ok"
          THEN /\ lastOp' = Failed("approve", caller, args, err)
               /\ UNCHANGED <<_tokenApprovals, nCalls>>
          ELSE /\ _tokenApprovals' = [_tokenApprovals EXCEPT ![tokenId] = to]
               /\ lastOp' = Ok("approve", caller, args, 0)
               /\ nCalls' = nCalls + 1
    /\ UNCHANGED <<tokenIds, owners, artworks, galleries, reviews, hasRated,
                   userArtworks, userGalleries, platformFee, _owner,
                   _operatorApprovals, balances, events, logLen, status, pc, frame,
                   paid, reent>>

\* setApprovalForAll(operator, approved)
setApprovalForAllCheck(operator, caller) ==
    IF caller = operator THEN "InvalidArgument" ELSE "ok"

setApprovalForAll(operator, approved, caller) ==
    /\ CallBy(caller)
    /\ UNCHANGED hooks
    /\ snap' = World
    /\ LET err == setApprovalForAllCheck(operator, caller)
           args == <<operator, approved>>
       IN IF err # "ok"
          THEN /\ lastOp' = Failed("setApprovalForAll", caller, args, err)
               /\ UNCHANGED <<_operatorApprovals, nCalls>>
          ELSE /\ _operatorApprovals' =
                     IF approved THEN _operatorApprovals \cup {<<caller, operator>>}
                     ELSE _operatorApprovals \ {<<caller, operator>>}
               /\ lastOp' = Ok("setApprovalForAll", caller, args, 0)
               /\ nCalls' = nCalls + 1
    /\ UNCHANGED <<tokenIds, owners, artworks, galleries, reviews, hasRated,
                   userArtworks, userGalleries, platformFee, _owner, _tokenApprovals,
                   balances, events, logLen, status, pc, frame, paid, reent>>

\* transferFrom(from, to, tokenId): _isApprovedOrOwner, then the requires of
\* _transfer
transferFromCheck(from, to, tokenId, caller) ==
    IF ~Exists(tokenId) THEN "NotFound"
    ELSE IF ~isApprovedOrOwner(caller, tokenId) THEN "Unauthorized"
    ELSE IF ownerOf(tokenId) # from THEN "InvalidArgument"
    ELSE IF to = ZeroAddress THEN "InvalidArgument"
    ELSE "ok"

\* the writes of _transfer(from, to, tokenId)
transferEffect(to, tokenId) ==
    /\ owners' = Transfer721(owners, to, tokenId)
    /\ _tokenApprovals' = ClearApproval(_tokenApprovals, tokenId)

transferFrom(from, to, tokenId, caller) ==
    /\ CallBy(caller)
    /\ UNCHANGED hooks
    /\ snap' = World
    /\ LET err == transferFromCheck(from, to, tokenId, caller)
           args == <<from, to, tokenId>>
       IN IF err # "ok"
          THEN /\ lastOp' = Failed("transferFrom", caller, args, err)
               /\ UNCHANGED <<owners, _tokenApprovals, nCalls>>
          ELSE /\ transferEffect(to, tokenId)
               /\ lastOp' = Ok("transferFrom", caller, args, 0)
               /\ nCalls' = nCalls + 1
    /\ UNCHANGED <<tokenIds, artworks, galleries, reviews, hasRated, userArtworks,
                   userGalleries, platformFee, _owner, _operatorApprovals, balances,
                   events, logLen, status, pc, frame, paid, reent>>

\* safeTransferFrom(from, to, tokenId, data): the requires and the writes of
\* transferFrom, and then _checkOnERC721Received calls onERC721Received of
\* the recipient, with all gas and with no lock held; the call is in progress
\* when this step ends.  (For a recipient that is no contract the library
\* makes no call and goes on, which is the callback that calls nothing and
\* accepts.)
safeTransferFromData(from, to, tokenId, data, caller) ==
    /\ CallBy(caller)
    /\ snap' = World
    /\ LET err == transferFromCheck(from, to, tokenId, caller)
           args == <<from, to, tokenId, data>>
       IN IF err # "ok"
          THEN /\ lastOp' = Failed("safeTransferFrom", caller, args, err)
               /\ UNCHANGED <<owners, _tokenApprovals, hooks, nCalls>>
          ELSE /\ transferEffect(to, tokenId)
               /\ lastOp' = Pending("safeTransferFrom", caller, args)
               /\ hooks' = Append(hooks,
                     [call |-> Pending("safeTransferFrom", caller, args),
                      snap |-> World, events |-> <<>>, to |-> to,
                      nested |-> FALSE])
               /\ nCalls' = nCalls + 1
    /\ UNCHANGED <<tokenIds, artworks, galleries, reviews, hasRated, userArtworks,
                   userGalleries, platformFee, _owner, _operatorApprovals, balances,
                   events, logLen, status, pc, frame, paid, reent>>

\* onERC721Received returns to _checkOnERC721Received.  If it returned the
\* selector, safeTransferFrom returns: what the calls made from the callback
\* wrote and logged stays.  If it returned anything else or reverted,
\* safeTransferFrom reverts: storage and balances are those at its start and
\* nothing logged within it remains.
checkOnERC721Received(accepted) ==
    /\ Receiving
    /\ hooks' = SubSeq(hooks, 1, Len(hooks) - 1)
    /\ snap' = Hook.snap
    /\ IF accepted
       THEN /\ lastOp' = [Hook.call EXCEPT !.err = "ok", !.nested = Hook.nested]
            /\ events' = Hook.events
            /\ UNCHANGED <<tokenIds, owners, artworks, galleries, reviews, hasRated,
                           userArtworks, userGalleries, platformFee, _owner,
                           _tokenApprovals, _operatorApprovals, balances>>
       ELSE /\ lastOp' = [Hook.call EXCEPT !.err = "NonReceiver"]
            /\ events' = <<>>
            /\ Restore(Hook.snap)
    /\ UNCHANGED <<logLen, status, pc, frame, paid, reent, nCalls>>

\* safeTransferFrom(from, to, tokenId) is safeTransferFrom(from, to, tokenId, "")
safeTransferFrom(from, to, tokenId, caller) ==
    safeTransferFromData(from, to, tokenId, "", caller)

\* transferOwnership(newOwner) onlyOwner
transferOwnershipCheck(newOwner, caller) ==
    IF caller # owner THEN "Unauthorized"
    ELSE IF newOwner = ZeroAddress THEN "InvalidArgument"
    ELSE "ok"

transferOwnership(newOwner, caller) ==
    /\ CallBy(caller)
    /\ UNCHANGED hooks
    /\ snap' = World
    /\ LET err == transferOwnershipCheck(newOwner, caller)
       IN IF err # "ok"
          THEN /\ lastOp' = Failed("transferOwnership", caller, <<newOwner>>, err)
               /\ UNCHANGED <<_owner, nCalls>>
          ELSE /\ _owner' = newOwner
               /\ lastOp' = Ok("transferOwnership", caller, <<newOwner>>, 0)
               /\ nCalls' = nCalls + 1
    /\ UNCHANGED <<tokenIds, owners, artworks, galleries, reviews, hasRated,
                   userArtworks, userGalleries, platformFee, _tokenApprovals,
                   _operatorApprovals, balances, events, logLen, status, pc, frame,
                   paid, reent>>

\* renounceOwnership() onlyOwner
renounceOwnership(caller) ==
    /\ CallBy(caller)
    /\ UNCHANGED hooks
    /\ snap' = World
    /\ IF caller # owner
       THEN /\ lastOp' = Failed("renounceOwnership", caller, <<>>, "Unauthorized")
            /\ UNCHANGED <<_owner, nCalls>>
       ELSE /\ _owner' = ZeroAddress
            /\ lastOp' = Ok("renounceOwnership", caller, <<>>, 0)
            /\ nCalls' = nCalls + 1
    /\ UNCHANGED <<tokenIds, owners, artworks, galleries, reviews, hasRated,
                   userArtworks, userGalleries, platformFee, _tokenApprovals,
                   _operatorApprovals, balances, events, logLen, status, pc, frame,
                   paid, reent>>

\* Calls of the inherited functions made by the recipient of the transfer in
\* progress: none carries a modifier against re-entry, and each is stopped by
\* the gas at its first write, as above.
ReenterApprove(to, tokenId) ==
    /\ Reentry
    /\ UNCHANGED hooks
    /\ LET caller == Recipient
           req == approveCheck(to, tokenId, caller)
           args == <<to, tokenId>>
       IN \E err \in ReenterErr(req) :
          IF err # "ok"
          THEN /\ reent' = Failed("approve", caller, args, err)
               /\ UNCHANGED _tokenApprovals
          ELSE /\ _tokenApprovals' = [_tokenApprovals EXCEPT ![tokenId] = to]
               /\ reent' = Ok("approve", caller, args, 0)
    /\ UNCHANGED <<tokenIds, owners, artworks, galleries, reviews, hasRated,
                   userArtworks, userGalleries, platformFee, _owner,
                   _operatorApprovals, balances, events, logLen, status, pc, frame,
                   snap, paid, lastOp, nCalls>>

ReenterSetApprovalForAll(operator, approved) ==
    /\ Reentry
    /\ UNCHANGED hooks
    /\ LET caller == Recipient
           req == setApprovalForAllCheck(operator, caller)
           args == <<operator, approved>>
       IN \E err \in ReenterErr(req) :
          IF err # "ok"
          THEN /\ reent' = Failed("setApprovalForAll", caller, args, err)
               /\ UNCHANGED _operatorApprovals
          ELSE /\ _operatorApprovals' =
                     IF approved THEN _operatorApprovals \cup {<<caller, operator>>}
                     ELSE _operatorApprovals \ {<<caller, operator>>}
               /\ reent' = Ok("setApprovalForAll", caller, args, 0)
    /\ UNCHANGED <<tokenIds, owners, artworks, galleries, reviews, hasRated,
                   userArtworks, userGalleries, platformFee, _owner, _tokenApprovals,
                   balances, events, logLen, status, pc, frame, snap, paid, lastOp,
                   nCalls>>

\* transferFrom and, with the same requires and writes, safeTransferFrom
ReenterTransferFrom(from, to, tokenId) ==
    /\ Reentry
    /\ UNCHANGED hooks
    /\ LET caller == Recipient
           req == transferFromCheck(from, to, tokenId, caller)
           args == <<from, to, tokenId>>
       IN \E err \in ReenterErr(req) :
          IF err # "ok"
          THEN /\ reent' = Failed("transferFrom", caller, args, err)
               /\ UNCHANGED <<owners, _tokenApprovals>>
          ELSE /\ transferEffect(to, tokenId)
               /\ reent' = Ok("transferFrom", caller, args, 0)
    /\ UNCHANGED <<tokenIds, artworks, galleries, reviews, hasRated, userArtworks,
                   userGalleries, platformFee, _owner, _operatorApprovals, balances,
                   events, logLen, status, pc, frame, snap, paid, lastOp, nCalls>>

\* transferOwnership(newOwner) and, with newOwner = address(0) and without
\* the require on it, renounceOwnership()
ReenterTransferOwnership(newOwner) ==
    /\ Reentry
    /\ UNCHANGED hooks
    /\ LET caller == Recipient
           req == IF newOwner = ZeroAddress /\ caller = owner THEN "ok"
                  ELSE transferOwnershipCheck(newOwner, caller)
           op == IF newOwner = ZeroAddress THEN "renounceOwnership"
                 ELSE "transferOwnership"
       IN \E err \in ReenterErr(req) :
          IF err # "ok"
          THEN /\ reent' = Failed(op, caller, <<newOwner>>, err)
               /\ UNCHANGED _owner
          ELSE /\ _owner' = newOwner
               /\ reent' = Ok(op, caller, <<newOwner>>, 0)
    /\ UNCHANGED <<tokenIds, owners, artworks, galleries, reviews, hasRated,
                   userArtworks, userGalleries, platformFee, _tokenApprovals,
                   _operatorApprovals, balances, events, logLen, status, pc, frame,
                   snap, paid, lastOp, nCalls>>

----------------------------------------------------------------------------
\* The call in lastOp has returned.  A transaction ends: its outcome has been
\* delivered to the caller and its log entries are part of the chain's log
\* (none if it failed).  A call made from onERC721Received returns there:
\* its log entries are, so far, part of the log of the enclosing
\* safeTransferFrom.
Return ==
    /\ pc = "idle"
    /\ lastOp.err \notin {"none", "pending"}
    /\ lastOp' = NoOp
    /\ reent' = NoOp
    /\ IF hooks = <<>>
       THEN /\ logLen' = logLen + Len(events)
            /\ UNCHANGED hooks
       ELSE /\ hooks' = [hooks EXCEPT ![Len(hooks)].events = @ \o events,
                                       ![Len(hooks)].nested = @ \/ lastOp.err = "ok"]
            /\ UNCHANGED logLen
    /\ events' = <<>>
    /\ paid' = <<>>
    /\ frame' = NoFrame
    /\ snap' = NoSnap
    /\ UNCHANGED <<_owner, _tokenApprovals, _operatorApprovals>>
    /\ UNCHANGED <<tokenIds, owners, artworks, galleries, reviews, hasRated,
                   userArtworks, userGalleries, platformFee, balances, status, pc,
                   nCalls>>

----------------------------------------------------------------------------
\* at most MaxCallsAll successful calls where every public function is called
WithinAll == nCalls < MaxCallsAll

\* Every public function, called with every input of the domains above.
Next ==
    \/ \E g \in GalleryIds, n \in Names, d \in Descriptions, c \in Users :
          WithinAll /\ createGallery(g, n, d, c)
    \/ \E t \in Titles, p \in Prices, g \in GalleryIds, r \in Royalties, c \in Users :
          WithinAll /\ createArtwork(t, p, g, r, c)
    \/ \E id \in TokenInputs, v \in Payments, c \in Users : WithinAll /\ purchaseArtwork(id, v, c)
    \/ \E id \in TokenInputs, p \in NewPrices, c \in Users : WithinAll /\ updateArtworkPrice(id, p, c)
    \/ \E id \in TokenInputs, m \in Comments, r \in Ratings, c \in Users :
          WithinAll /\ addReview(id, m, r, c)
    \/ \E f \in FeeRates, c \in Users : WithinAll /\ updatePlatformFee(f, c)
    \/ \E to \in Approved, id \in TokenInputs, c \in Users : WithinAll /\ approve(to, id, c)
    \/ \E o \in Operators, a \in BOOLEAN, c \in Users : WithinAll /\ setApprovalForAll(o, a, c)
    \/ \E from \in Users, to \in TransferTos, id \in TokenInputs, c \in Users :
          WithinAll /\ transferFrom(from, to, id, c)
    \/ \E from \in TransferFroms, to \in PassingTransferTos, id \in TokenInputs,
          c \in TransferFroms :
          WithinAll /\ safeTransferFrom(from, to, id, c)
    \/ \E from \in TransferFroms, to \in PassingTransferTos, id \in TokenInputs,
          d \in Datas, c \in TransferFroms :
          WithinAll /\ safeTransferFromData(from, to, id, d, c)
    \/ \E n \in NewOwners, c \in Users : WithinAll /\ transferOwnership(n, c)
    \/ \E c \in Users : WithinAll /\ renounceOwnership(c)
    \/ \E accepted \in BOOLEAN : checkOnERC721Received(accepted)
    \/ \E id \in TokenInputs : getArtwork(id)
    \/ RoyaltyTransferred
    \/ FeeTransferred
    \/ SellerTransferred
    \/ TransferFails
    \/ \E id \in TokenInputs, v \in ReentrantPayments : ReenterPurchaseArtwork(id, v)
    \/ Return

Spec == Init /\ [][Next]_vars

----------------------------------------------------------------------------
\* The executions in which the recipients of a purchase's transfers call the
\* contract back.  All calls are made with arguments that pass the requires
\* on the arguments alone, so that a call fails only for the state it meets.
PassingTitles == Titles \ {""}
PassingPrices == {p \in Prices : p > 0}
PassingGalleryIds == GalleryIds \ {""}
PassingNames == Names \ {""}
PassingRoyalties == {r \in Royalties : r <= 100}
PassingRatings == {r \in Ratings : r >= 1 /\ r <= 5}
PassingFeeRates == {f \in FeeRates : f <= 100}
PassingNewPrices == {p \in NewPrices : p > 0}
PassingNewOwners == NewOwners \ {ZeroAddress}
\* the caller of createGallery where the curator plays no part
Curators == {Deployer}

NextReentry ==
    \/ \E g \in PassingGalleryIds, n \in PassingNames, d \in Descriptions,
          c \in Curators :
          WithinAll /\ createGallery(g, n, d, c)
    \/ \E t \in PassingTitles, p \in PassingPrices, g \in PassingGalleryIds,
          r \in PassingRoyalties, c \in Users :
          WithinAll /\ createArtwork(t, p, g, r, c)
    \/ \E id \in TokenInputs, v \in Payments, c \in Users : WithinAll /\ purchaseArtwork(id, v, c)
    \/ \E id \in TokenInputs, p \in PassingNewPrices, c \in Users :
          WithinAll /\ updateArtworkPrice(id, p, c)
    \/ \E id \in TokenInputs, m \in Comments, r \in PassingRatings, c \in Users :
          WithinAll /\ addReview(id, m, r, c)
    \/ \E f \in PassingFeeRates, c \in Users : WithinAll /\ updatePlatformFee(f, c)
    \/ \E from \in Users, to \in PassingTransferTos, id \in TokenInputs, c \in Users :
          WithinAll /\ transferFrom(from, to, id, c)
    \/ RoyaltyTransferred
    \/ FeeTransferred
    \/ SellerTransferred
    \/ TransferFails
    \/ \E id \in TokenInputs, v \in Payments : ReenterPurchaseArtwork(id, v)
    \/ \E g \in GalleryKeys \ {""}, n \in PassingNames, d \in Descriptions :
          ReenterCreateGallery(g, n, d)
    \/ \E t \in PassingTitles, p \in PassingPrices, g \in PassingGalleryIds,
          r \in PassingRoyalties :
          ReenterCreateArtwork(t, p, g, r)
    \/ \E id \in TokenInputs, m \in Comments, r \in PassingRatings :
          ReenterAddReview(id, m, r)
    \/ \E f \in PassingFeeRates : ReenterUpdatePlatformFee(f)
    \/ \E id \in TokenInputs, p \in PassingNewPrices : ReenterUpdateArtworkPrice(id, p)
    \/ \E to \in PassingTransferTos, id \in TokenInputs : ReenterApprove(to, id)
    \/ \E o \in Operators : ReenterSetApprovalForAll(o, TRUE)
    \/ \E from \in Users, to \in PassingTransferTos, id \in TokenInputs :
          ReenterTransferFrom(from, to, id)
    \/ \E n \in NewOwners : ReenterTransferOwnership(n)
    \/ Return

SpecReentry == Init /\ [][NextReentry]_vars

----------------------------------------------------------------------------
\* Sales of assets whose royalty percentage is at an end of its range: 0, 2
\* (the royalty on a payment of 40 is 0, on one of 50 it is 1) and 100.
SaleRoyalties == {0, 2, 100}

NextSales ==
    \/ \E g \in PassingGalleryIds, n \in PassingNames, d \in Descriptions,
          c \in Curators :
          createGallery(g, n, d, c)
    \/ \E t \in PassingTitles, p \in PassingPrices, g \in PassingGalleryIds,
          r \in SaleRoyalties, c \in Users :
          createArtwork(t, p, g, r, c)
    \/ \E id \in TokenInputs, v \in Payments, c \in Users : purchaseArtwork(id, v, c)
    \/ RoyaltyTransferred
    \/ FeeTransferred
    \/ SellerTransferred
    \/ TransferFails
    \/ \E id \in TokenInputs, p \in PassingNewPrices, c \in Users :
          updateArtworkPrice(id, p, c)
    \/ \E from \in Users, to \in PassingTransferTos, id \in TokenInputs, c \in Users :
          transferFrom(from, to, id, c)
    \/ \E n \in PassingNewOwners, c \in Users : transferOwnership(n, c)
    \/ Return

SpecSales == Init /\ [][NextSales]_vars

\* The galleries and their member lists: galleries are created under every key
\* of GalleryKeys (the empty key is refused), assets are created in them,
\* sold, relisted and sold again, and the member lists are read.
GalleryRoyalties == {10}
GalleryPayments == {50}

NextGalleries ==
    \/ \E g \in GalleryKeys, n \in PassingNames, d \in Descriptions, c \in Users :
          createGallery(g, n, d, c)
    \/ \E t \in PassingTitles, p \in PassingPrices, g \in GalleryKeys,
          r \in GalleryRoyalties, c \in Users :
          createArtwork(t, p, g, r, c)
    \/ \E g \in GalleryKeys : getGalleryArtworks(g)
    \/ \E id \in TokenInputs, v \in GalleryPayments, c \in Users :
          purchaseArtwork(id, v, c)
    \/ \E id \in TokenInputs, p \in PassingNewPrices, c \in Users :
          updateArtworkPrice(id, p, c)
    \/ \E from \in Users, to \in TransferTos, id \in TokenInputs, c \in Users :
          transferFrom(from, to, id, c)
    \/ RoyaltyTransferred
    \/ FeeTransferred
    \/ SellerTransferred
    \/ TransferFails
    \/ Return

SpecGalleries == Init /\ [][NextGalleries]_vars

----------------------------------------------------------------------------
\* Properties.  They are stated on the state in which a call, made in a
\* transaction of its own or from onERC721Received, has produced its outcome
\* (lastOp) and snap still holds the state it started from.

CallId == lastOp.args[1]
Purchased == lastOp.op = "purchaseArtwork" /\ lastOp.err = "ok"
\* the call left storage, balances and log as it found them
NothingChanged == World = snap /\ events = <<>> /\ paid = <<>> /\ pc = "idle"
\* the call in lastOp is a safeTransferFrom from whose onERC721Received calls
\* were made that took effect: the state and the log are those of its start
\* with its own writes and with the writes and the log entries of these calls,
\* each of which was, when it was made, the call in lastOp itself
Composite == lastOp.op = "safeTransferFrom" /\ lastOp.nested
\* a step in which the call in lastOp reverts: storage and balances are again
\* those of its start
Rollback == lastOp'.err \notin {"ok", "pending", "none"} /\ World' = snap'
\* the amount paid out to account u by the purchase
RECURSIVE SumTo(_, _)
SumTo(seq, u) ==
    IF seq = <<>> THEN 0
    ELSE (IF Head(seq).to = u THEN Head(seq).amount ELSE 0) + SumTo(Tail(seq), u)
EventsOf(kind) == {i \in DOMAIN events : events[i].ev = kind}

\* C1: in every successful purchase whose seller is not the creator, with
\* payment p, royalty percentage r and fee rate f at the time of the call, the
\* creator is paid floor(p*r/100), the contract's owner() floor(p*f/1000), the seller
\* p minus both, the three sum to p, and the balances moved accordingly.
C1_SecondarySaleSplit ==
    (Purchased /\ snap.owners[CallId] # snap.artworks[CallId].artist) =>
        LET p == lastOp.args[2]
            a == snap.artworks[CallId]
            roy == (p * a.royaltyPercentage) \div 100
            fee == (p * snap.platformFee) \div 1000
        IN /\ paid = <<[to |-> a.artist, amount |-> roy, what |-> "royalty"],
                       [to |-> snap._owner, amount |-> fee, what |-> "fee"],
                       [to |-> snap.owners[CallId], amount |-> p - roy - fee,
                        what |-> "seller"]>>
           /\ paid[1].amount + paid[2].amount + paid[3].amount = p
           /\ p - roy - fee >= 0
           /\ \A u \in Accounts \ {Registry} :
                 balances[u] = snap.balances[u] + SumTo(paid, u)
                               - (IF u = lastOp.caller THEN p ELSE 0)
           /\ balances[Registry] = snap.balances[Registry]

\* a secondary sale that overpays and in which both divisions truncate
C1_Witness ==
    /\ Purchased
    /\ snap.owners[CallId] # snap.artworks[CallId].artist
    /\ lastOp.args[2] > snap.artworks[CallId].price
    /\ (lastOp.args[2] * snap.artworks[CallId].royaltyPercentage) % 100 # 0
    /\ (lastOp.args[2] * snap.platformFee) % 1000 # 0

\* C2: while an outward transfer of a purchase is in progress the asset's owner
\* is already the buyer and its forSale flag is already false.
C2_EffectsBeforeTransfers ==
    pc # "idle" =>
        /\ owners[frame.tokenId] = frame.buyer
        /\ ~artworks[frame.tokenId].forSale

\* C3: a purchaseArtwork call made by a payment recipient during a transfer of
\* an enclosing purchase never succeeds; one purchase logs at most one
\* ArtworkSold and pays each of royalty, fee and seller amount at most once.
C3_NoReentrantPurchase ==
    /\ reent.op = "purchaseArtwork" => reent.err \notin {"ok", "pending"}
    /\ ~Composite => Cardinality(EventsOf("ArtworkSold")) <= 1
    /\ \A i, j \in DOMAIN paid : paid[i].what = paid[j].what => i = j

\* the recipient of a transfer in progress tries to buy the very asset being
\* sold, still flagged for sale, with a sufficient payment
C3_Witness ==
    /\ pc # "idle"
    /\ reent.op = "purchaseArtwork"
    /\ reent.caller = Recipient
    /\ reent.args[1] = frame.tokenId
    /\ artworks[frame.tokenId].forSale
    /\ reent.args[2] >= artworks[frame.tokenId].price
    /\ reent.err = "ReentrantCall"

\* C4: if an outward transfer of a purchase fails, the purchase fails as a
\* whole: owner, forSale flag, all storage, every balance and the log are as
\* before the call, whatever transfers had succeeded before the failing one.
C4_FailedTransferRollsBack ==
    (lastOp.op = "purchaseArtwork" /\ lastOp.err \in {"TransferFailed", "Panic"}) =>
        /\ NothingChanged
        /\ status = NOT_ENTERED

\* the transfer to the seller fails after royalty and fee have been paid
C4_Witness ==
    /\ lastOp.op = "purchaseArtwork"
    /\ lastOp.err = "TransferFailed"
    /\ lastOp.at = "seller"
    /\ snap.owners[CallId] # snap.artworks[CallId].artist

\* C5: a purchase of an existing asset that is not for sale fails with
\* NotForSale, for every payment and caller, and changes nothing.
C5_NotForSale ==
    (/\ lastOp.op = "purchaseArtwork"
     /\ CallId \in DOMAIN snap.owners
     /\ ~snap.artworks[CallId].forSale) =>
        /\ lastOp.err = "NotForSale"
        /\ NothingChanged

\* refused although the payment covers the price
C5_Witness ==
    /\ lastOp.op = "purchaseArtwork"
    /\ lastOp.err = "NotForSale"
    /\ lastOp.args[2] >= snap.artworks[CallId].price

\* C6: a purchase of an existing for-sale asset with a payment below the price
\* fails with InsufficientPayment and changes nothing; a payment equal to or
\* above the price passes this check.
C6_InsufficientPayment ==
    (/\ lastOp.op = "purchaseArtwork"
     /\ CallId \in DOMAIN snap.owners
     /\ snap.artworks[CallId].forSale) =>
        IF lastOp.args[2] < snap.artworks[CallId].price
        THEN lastOp.err = "InsufficientPayment" /\ NothingChanged
        ELSE lastOp.err \in {"pending", "ok", "TransferFailed", "Panic"}

C6_Witness ==
    /\ lastOp.op = "purchaseArtwork"
    /\ lastOp.err = "InsufficientPayment"
    /\ lastOp.args[2] < snap.artworks[CallId].price
    /\ lastOp.args[2] > 0

\* C7: in every successful purchase whose seller is the creator no royalty is
\* computed, transferred or logged, and the creator is paid the payment minus
\* the platform fee.
C7_PrimarySaleNoRoyalty ==
    /\ pc = "royalty" => frame.seller # artworks[frame.tokenId].artist
    /\ (Purchased /\ snap.owners[CallId] = snap.artworks[CallId].artist) =>
          LET p == lastOp.args[2]
              fee == (p * snap.platformFee) \div 1000
          IN /\ frame.royaltyAmount = 0
             /\ EventsOf("RoyaltyPaid") = {}
             /\ paid = <<[to |-> snap._owner, amount |-> fee, what |-> "fee"],
                         [to |-> snap.artworks[CallId].artist, amount |-> p - fee,
                          what |-> "seller"]>>

C7_Witness ==
    /\ Purchased
    /\ snap.owners[CallId] = snap.artworks[CallId].artist
    /\ snap.artworks[CallId].royaltyPercentage > 0
    /\ lastOp.caller # snap.artworks[CallId].artist

\* C8: updateArtworkPrice succeeds exactly when the asset exists, the caller is
\* its owner and the new price is positive; it then sets the price, sets
\* forSale and logs PriceUpdated, and changes nothing else; otherwise it fails
\* and changes nothing.
C8_UpdatePrice ==
    lastOp.op = "updateArtworkPrice" =>
        LET id == CallId
            newPrice == lastOp.args[2]
        IN IF /\ id \in DOMAIN snap.owners
              /\ lastOp.caller = snap.owners[id]
              /\ newPrice > 0
           THEN /\ lastOp.err = "ok"
                /\ World = [snap EXCEPT !.artworks[id].price = newPrice,
                                        !.artworks[id].forSale = TRUE]
                /\ events = <<[ev |-> "PriceUpdated", tokenId |-> id,
                               newPrice |-> newPrice]>>
           ELSE /\ lastOp.err \notin {"ok", "pending"}
                /\ NothingChanged

\* a buyer relists, at a new price, the asset bought from its creator
C8_Witness ==
    /\ lastOp.op = "updateArtworkPrice"
    /\ lastOp.err = "ok"
    /\ ~snap.artworks[CallId].forSale
    /\ lastOp.caller # artworks[CallId].artist
    /\ artworks[CallId].price # snap.artworks[CallId].price
    /\ artworks[CallId].forSale

\* C9: the ids issued are exactly 1..tokenIds; a successful createArtwork
\* returns the counter's value plus one, greater than every id issued before,
\* and advances the counter by one; no other call moves the counter, unless
\* it is a safeTransferFrom from whose callback such calls were made.
C9_MonotonicIds ==
    /\ DOMAIN owners = 1..tokenIds
    /\ DOMAIN artworks = 1..tokenIds
    /\ (lastOp.op # "none" /\ ~Composite) =>
          IF lastOp.op = "createArtwork" /\ lastOp.err = "ok"
          THEN /\ tokenIds = snap.tokenIds + 1
               /\ lastOp.ret = tokenIds
               /\ \A i \in DOMAIN snap.owners : lastOp.ret > i
               /\ lastOp.ret \notin DOMAIN snap.owners
          ELSE tokenIds = snap.tokenIds

C9_Witness ==
    /\ lastOp.op = "createArtwork"
    /\ lastOp.err = "ok"
    /\ lastOp.ret = 2
    /\ DOMAIN snap.owners = {1}

\* C10 as claimed: addReview by a caller who has already reviewed the asset
\* fails with AlreadyRated whatever the rating, and changes nothing.
C10_AlwaysAlreadyRated ==
    (lastOp.op = "addReview" /\ <<CallId, lastOp.caller>> \in snap.hasRated) =>
        /\ lastOp.err = "AlreadyRated"
        /\ NothingChanged

\* C10 amended: addReview by a caller who has already reviewed the asset fails
\* and changes nothing; the failure is AlreadyRated when the rating is in
\* [1,5] and InvalidArgument when it is not (the range is checked first).  No
\* asset has two reviews by the same reviewer.
C10_DuplicateReviewFails ==
    /\ (lastOp.op = "addReview" /\ <<CallId, lastOp.caller>> \in snap.hasRated) =>
          /\ lastOp.err = (IF lastOp.args[3] >= 1 /\ lastOp.args[3] <= 5
                           THEN "AlreadyRated" ELSE "InvalidArgument")
          /\ NothingChanged
    /\ \A id \in DOMAIN reviews : \A i, j \in DOMAIN reviews[id] :
          reviews[id][i].reviewer = reviews[id][j].reviewer => i = j

\* a second review with another rating than the first is refused
C10_Witness ==
    /\ lastOp.op = "addReview"
    /\ lastOp.err = "AlreadyRated"
    /\ \E i \in DOMAIN reviews[CallId] :
          /\ reviews[CallId][i].reviewer = lastOp.caller
          /\ reviews[CallId][i].rating # lastOp.args[3]

\* one step, as C11 allows it
C11_RatingsStep ==
    /\ \/ Rollback
       \/ \A id \in DOMAIN artworks :
          \/ /\ artworks'[id].totalRatings = artworks[id].totalRatings
             /\ artworks'[id].ratingSum = artworks[id].ratingSum
          \/ /\ artworks'[id].totalRatings = artworks[id].totalRatings + 1
             /\ artworks'[id].ratingSum - artworks[id].ratingSum \in 1..5
             /\ CallStarts
             /\ lastOp'.op = "addReview"
             /\ lastOp'.err = "ok"
             /\ lastOp'.args[1] = id
             /\ lastOp'.args[3] = artworks'[id].ratingSum - artworks[id].ratingSum
    /\ (/\ CallStarts
        /\ lastOp'.op = "addReview"
        /\ \/ lastOp'.args[3] \notin 1..5
           \/ lastOp'.args[1] \notin DOMAIN owners) =>
          /\ lastOp'.err \in {"InvalidArgument", "NotFound"}
          /\ UNCHANGED <<artworks, reviews, hasRated, events>>

\* C11: in every step, for every asset, totalRatings and ratingSum either both
\* stay as they are, or totalRatings grows by exactly 1 and ratingSum by the
\* rating r, 1 <= r <= 5, of a successful addReview for that asset made in this
\* step, or the step is that of a call reverting, which puts them back to what
\* they were when that call began; an addReview whose rating is outside [1,5]
\* or whose asset does not exist fails and changes nothing.
C11_RatingsOnlyGrowByOne == [][C11_RatingsStep]_vars

\* a second reviewer's rating has just been added to an asset
C11_Witness ==
    /\ lastOp.op = "addReview"
    /\ lastOp.err = "ok"
    /\ snap.artworks[CallId].totalRatings = 1
    /\ artworks[CallId].totalRatings = 2
    /\ artworks[CallId].ratingSum = snap.artworks[CallId].ratingSum + lastOp.args[3]

\* the ratings given to asset id so far, in the order given
RatingsGiven(id) == [i \in DOMAIN reviews[id] |-> reviews[id][i].rating]

\* C12: getArtwork(id) of an existing asset returns, as average rating, 0 when
\* totalRatings = 0 and otherwise the integer q with
\* q * totalRatings <= ratingSum < (q+1) * totalRatings (the quotient truncated:
\* ratings 4,2 give 3 and ratings 4,5 give 4), together with the stored title,
\* artist, price, forSale, galleryId and royaltyPercentage; the call changes
\* nothing, whether it succeeds or fails.
C12_AverageRating ==
    lastOp.op = "getArtwork" =>
        /\ NothingChanged
        /\ status = NOT_ENTERED
        /\ IF CallId \in DOMAIN snap.owners
           THEN LET a == snap.artworks[CallId]
                    q == lastOp.ret.avgRating
                IN /\ lastOp.err = "ok"
                   /\ IF a.totalRatings = 0
                      THEN q = 0
                      ELSE /\ q * a.totalRatings <= a.ratingSum
                           /\ a.ratingSum < (q + 1) * a.totalRatings
                   /\ RatingsGiven(CallId) \in {<<4, 2>>, <<2, 4>>} => q = 3
                   /\ RatingsGiven(CallId) \in {<<4, 5>>, <<5, 4>>} => q = 4
                   /\ lastOp.ret = [title |-> a.title, artist |-> a.artist,
                                    price |-> a.price, forSale |-> a.forSale,
                                    avgRating |-> q, galleryId |-> a.galleryId,
                                    royaltyPercentage |-> a.royaltyPercentage]
           ELSE lastOp.err = "NotFound"

\* the average of the ratings 4 and 5 is read: the quotient 9/2 is truncated
C12_Witness ==
    /\ lastOp.op = "getArtwork"
    /\ lastOp.err = "ok"
    /\ RatingsGiven(CallId) \in {<<4, 5>>, <<5, 4>>}
    /\ artworks[CallId].ratingSum = 9
    /\ lastOp.ret.avgRating = 4

\* C13: the fee rate is at most 100 in every reachable state and is the default
\* 25 until a call has succeeded; a call changes it only if it is
\* updatePlatformFee(newFee) called by the contract's owner with newFee <= 100,
\* which sets it to newFee (or a safeTransferFrom from whose callback such
\* calls were made); updatePlatformFee by any other caller fails with
\* Unauthorized, by the owner with newFee > 100 with InvalidArgument, and both
\* change nothing.
C13_FeeRateBounded ==
    /\ platformFee <= 100
    /\ nCalls = 0 => platformFee = DefaultPlatformFee
    /\ (lastOp.op # "none" /\ ~Composite) =>
          IF lastOp.op = "updatePlatformFee"
          THEN IF lastOp.caller # snap._owner
               THEN lastOp.err = "Unauthorized" /\ NothingChanged
               ELSE IF lastOp.args[1] > 100
               THEN lastOp.err = "InvalidArgument" /\ NothingChanged
               ELSE /\ lastOp.err = "ok"
                    /\ platformFee = lastOp.args[1]
                    /\ World = [snap EXCEPT !.platformFee = lastOp.args[1]]
          ELSE platformFee = snap.platformFee

\* the owner has changed the rate from the default
C13_Witness ==
    /\ lastOp.op = "updatePlatformFee"
    /\ lastOp.err = "ok"
    /\ lastOp.caller = snap._owner
    /\ snap.platformFee = DefaultPlatformFee
    /\ platformFee # snap.platformFee

\* C14 as claimed: createGallery with the key of an existing gallery fails with
\* AlreadyExists, whatever the other arguments, and changes nothing.
C14_AlwaysAlreadyExists ==
    (lastOp.op = "createGallery" /\ snap.galleries[CallId].isActive) =>
        /\ lastOp.err = "AlreadyExists"
        /\ NothingChanged

\* one step, as C14 (amended) allows it
C14_GalleryStep ==
    /\ \/ Rollback
       \/ \A g \in GalleryIds :
          galleries[g].isActive =>
              /\ galleries'[g].isActive
              /\ galleries'[g].curator = galleries[g].curator
              /\ galleries'[g].name = galleries[g].name
              /\ galleries'[g].description = galleries[g].description
    /\ (/\ CallStarts
        /\ lastOp'.op = "createGallery"
        /\ galleries[lastOp'.args[1]].isActive) =>
          /\ lastOp'.err = (IF lastOp'.args[2] # "" THEN "AlreadyExists"
                            ELSE "InvalidArgument")
          /\ UNCHANGED <<galleries, userGalleries, events>>

\* C14 amended: once a gallery exists under a key, every step leaves it active
\* and leaves its curator, name and description as they are (but for the step
\* of a call reverting, after which the galleries are those of its start), and every
\* createGallery with that key, by any caller, fails and changes nothing: with
\* AlreadyExists when the name given is not empty, with InvalidArgument when
\* it is (the name is checked first).
C14_GalleryKeyUnique == [][C14_GalleryStep]_vars

\* another caller than the curator tries to create the gallery again, under
\* the same key
C14_Witness ==
    /\ lastOp.op = "createGallery"
    /\ lastOp.err = "AlreadyExists"
    /\ galleries[CallId].isActive
    /\ galleries[CallId].curator # lastOp.caller

\* C15: createArtwork fails and changes nothing (the counter, the gallery's and
\* the caller's lists, the log) whenever the title is empty, the price is 0,
\* the gallery key is not that of an active gallery, or the royalty percentage
\* exceeds 100; it succeeds, for every caller, when none of the four is the
\* case.
C15_CreateArtworkPreconditions ==
    lastOp.op = "createArtwork" =>
        IF /\ lastOp.args[1] # ""
           /\ lastOp.args[2] > 0
           /\ snap.galleries[lastOp.args[3]].isActive
           /\ lastOp.args[4] <= 100
        THEN /\ lastOp.err = "ok"
             /\ lastOp.ret \in DOMAIN owners
             /\ owners[lastOp.ret] = lastOp.caller
        ELSE /\ lastOp.err \in {"InvalidArgument", "NotFound"}
             /\ NothingChanged
             /\ tokenIds = snap.tokenIds
             /\ userArtworks = snap.userArtworks
             /\ galleries = snap.galleries
             /\ events = <<>>

\* after a first asset, a creation is refused for its royalty percentage
\* alone, requested by someone who is not the gallery's curator
C15_Witness ==
    /\ lastOp.op = "createArtwork"
    /\ lastOp.err = "InvalidArgument"
    /\ lastOp.args[1] # ""
    /\ lastOp.args[2] > 0
    /\ galleries[lastOp.args[3]].isActive
    /\ galleries[lastOp.args[3]].curator # lastOp.caller
    /\ lastOp.args[4] > 100
    /\ tokenIds = 1

\* the function f with key k set to v, k added to its domain if need be
Ext(f, k, v) == [i \in DOMAIN f \cup {k} |-> IF i = k THEN v ELSE f[i]]

\* C16: a successful createArtwork(title, price, galleryId, royalty) by caller c
\* returning id leaves the state that differs from the one before it in
\* exactly this: the counter is id; id is owned by c; artworks[id] has artist c,
\* forSale true, the given title, price, gallery and royalty, totalRatings and
\* ratingSum 0, and no reviews; id is the last element, after the former
\* ones, of the gallery's artworkIds and of userArtworks[c]; and the log
\* holds one entry, ArtworkCreated(id, title, c, price).
C16_CreateArtworkEffect ==
    (lastOp.op = "createArtwork" /\ lastOp.err = "ok") =>
        LET id == lastOp.ret
            c == lastOp.caller
            title == lastOp.args[1]
            price == lastOp.args[2]
            g == lastOp.args[3]
            royalty == lastOp.args[4]
        IN /\ id = snap.tokenIds + 1
           /\ World = [snap EXCEPT
                 !.tokenIds = id,
                 !.owners = Ext(@, id, c),
                 !.artworks = Ext(@, id,
                     [title |-> title, artist |-> c, price |-> price, forSale |-> TRUE,
                      totalRatings |-> 0, ratingSum |-> 0, galleryId |-> g,
                      royaltyPercentage |-> royalty]),
                 !.reviews = Ext(@, id, <<>>),
                 !.galleries[g].artworkIds = @ \o <<id>>,
                 !.userArtworks[c] = @ \o <<id>>]
           /\ events = <<[ev |-> "ArtworkCreated", tokenId |-> id, title |-> title,
                          artist |-> c, price |-> price]>>
           /\ paid = <<>>
           /\ status = NOT_ENTERED
           /\ pc = "idle"

\* a second asset is created, by the creator of the first, in the same gallery
C16_Witness ==
    /\ lastOp.op = "createArtwork"
    /\ lastOp.err = "ok"
    /\ lastOp.ret = 2
    /\ userArtworks[lastOp.caller] = <<1, 2>>
    /\ galleries[lastOp.args[3]].artworkIds = <<1, 2>>
    /\ galleries[lastOp.args[3]].curator # lastOp.caller

\* C17: after a successful purchaseArtwork(id) with payment p by caller b, the
\* owner of id is b; artworks[id] is as before the call except that forSale is
\* false (price, artist, gallery, royalty percentage and ratings as before);
\* the last log entry, and the only ArtworkSold, is ArtworkSold(id, seller, b,
\* p) with seller the owner before the call; every other asset and owner, the
\* galleries with their artworkIds, the reviews and the fee rate are as before.
C17_PurchaseEffect ==
    Purchased =>
        LET id == CallId
            b == lastOp.caller
            p == lastOp.args[2]
            seller == snap.owners[id]
        IN /\ owners = [snap.owners EXCEPT ![id] = b]
           /\ artworks = [snap.artworks EXCEPT ![id].forSale = FALSE]
           /\ snap.artworks[id].forSale
           /\ events # <<>>
           /\ events[Len(events)] = [ev |-> "ArtworkSold", tokenId |-> id,
                                     from |-> seller, to |-> b, price |-> p]
           /\ EventsOf("ArtworkSold") = {Len(events)}
           /\ galleries = snap.galleries
           /\ platformFee = snap.platformFee
           /\ reviews = snap.reviews
           /\ hasRated = snap.hasRated
           /\ tokenIds = snap.tokenIds

\* an asset is bought from a seller who is not its creator, for more than its
\* price: the price stays, and the event carries the payment
C17_Witness ==
    /\ Purchased
    /\ owners[CallId] = lastOp.caller
    /\ snap.owners[CallId] \notin {lastOp.caller, artworks[CallId].artist}
    /\ ~artworks[CallId].forSale
    /\ lastOp.args[2] > artworks[CallId].price
    /\ events[Len(events)].price = lastOp.args[2]
    /\ galleries[artworks[CallId].galleryId].artworkIds # <<>>

\* the calls that write to storage
MutatingOps == {"createGallery", "createArtwork", "purchaseArtwork",
                "updateArtworkPrice", "addReview", "updatePlatformFee"}

\* C18: a call of createGallery, createArtwork, purchaseArtwork,
\* updateArtworkPrice, addReview or updatePlatformFee that has succeeded has
\* logged at least one event, and a call that has changed the fee rate has
\* logged at least one event.
C18_EveryMutationLogged ==
    /\ (lastOp.op \in MutatingOps /\ lastOp.err = "ok") => events # <<>>
    /\ (lastOp.op # "none" /\ ~Composite /\ pc = "idle"
          /\ snap.platformFee # platformFee) =>
          events # <<>>

\* the place of a transfer in the order royalty, fee, seller
Rank(what) == CASE what = "royalty" -> 1 [] what = "fee" -> 2 [] what = "seller" -> 3

\* the transfers made so far by the purchase are in the order royalty, fee,
\* seller
TransfersInOrder == \A i, j \in DOMAIN paid : i < j => Rank(paid[i].what) < Rank(paid[j].what)

\* C19: in a purchase, ArtworkSold has been logged whenever an outward
\* transfer is in progress or has been made, and the transfers are made in
\* the order royalty (if any), platform fee, seller.
C19_SoldBeforeTransfers ==
    lastOp.op = "purchaseArtwork" =>
        /\ (pc # "idle" \/ paid # <<>>) => EventsOf("ArtworkSold") # {}
        /\ TransfersInOrder

\* sequence s is an initial part of sequence t
IsPrefix(s, t) == Len(s) <= Len(t) /\ \A i \in DOMAIN s : s[i] = t[i]

\* one step, as C20 allows it
C20_IndexStep ==
    /\ \/ Rollback
       \/ \A u \in Users : IsPrefix(getUserArtworks(u), getUserArtworks(u)')
    /\ (pc = "seller" /\ pc' = "idle" /\ lastOp'.err = "ok") =>
          /\ IsPrefix(snap.userArtworks[frame.seller], getUserArtworks(frame.seller)')
          /\ \A i \in DOMAIN snap.userArtworks[frame.seller] :
                snap.userArtworks[frame.seller][i] = frame.tokenId =>
                    getUserArtworks(frame.seller)'[i] = frame.tokenId

\* C20: in every step, for every user, the sequence getUserArtworks(user)
\* before the step is an initial part of the sequence after it (elements are
\* only added, at the end), but for the step of a call reverting, after which
\* the sequences are those of its start; and when a purchase completes, the seller's
\* sequence as it was before the purchase is an initial part of the
\* seller's sequence, with the id sold at every place at which it was.
C20_OwnerIndexAppendOnly == [][C20_IndexStep]_vars

\* after a completed sale the id sold is in the seller's sequence although
\* the seller no longer owns it, behind an id the seller created earlier
C20_Witness ==
    /\ Purchased
    /\ owners[CallId] # snap.owners[CallId]
    /\ getUserArtworks(snap.owners[CallId]) = <<1, 2>>
    /\ CallId = 2

\* C21: a call of createGallery, createArtwork, addReview, updatePlatformFee,
\* updateArtworkPrice or purchaseArtwork, or of an inherited function, made by
\* the recipient of a transfer of a purchase in progress never succeeds; and as
\* long as the purchase is in progress, and when it has completed, galleries,
\* reviews, the rated index, the fee rate, the counter, the per-user lists, the
\* contract's owner and the operator approvals are those of its start, the
\* assets differ from those of its start at most in what the purchase itself
\* does (the sold asset's owner, approval and forSale flag), and the log holds
\* only the purchase's own events.
C21_NoInterleavedMutation ==
    /\ reent.op # "none" => reent.err \notin {"ok", "pending"}
    /\ (lastOp.op = "purchaseArtwork" /\ lastOp.err \in {"pending", "ok"}) =>
          /\ galleries = snap.galleries
          /\ reviews = snap.reviews
          /\ hasRated = snap.hasRated
          /\ platformFee = snap.platformFee
          /\ tokenIds = snap.tokenIds
          /\ userArtworks = snap.userArtworks
          /\ userGalleries = snap.userGalleries
          /\ owners \in {snap.owners, [snap.owners EXCEPT ![CallId] = lastOp.caller]}
          /\ artworks \in {snap.artworks, [snap.artworks EXCEPT ![CallId].forSale = FALSE]}
          /\ _owner = snap._owner
          /\ _operatorApprovals = snap._operatorApprovals
          /\ _tokenApprovals \in {snap._tokenApprovals,
                                   [snap._tokenApprovals EXCEPT ![CallId] = ZeroAddress]}
          /\ \A i \in DOMAIN events :
                /\ events[i].ev \in {"RoyaltyPaid", "ArtworkSold"}
                /\ events[i].tokenId = CallId

\* during the fee transfer of a purchase the recipient, who has not reviewed
\* the asset being sold, calls addReview for it with a rating in [1,5]
C21_Witness ==
    /\ pc = "fee"
    /\ reent.op = "addReview"
    /\ reent.caller = Recipient
    /\ reent.args[1] = frame.tokenId
    /\ reent.args[3] \in 1..5
    /\ <<frame.tokenId, Recipient>> \notin hasRated
    /\ reent.err = "OutOfGas"

\* C22: a successful purchase has logged RoyaltyPaid exactly if it has
\* transferred a royalty greater than 0.
C22_RoyaltyPaidIffPositive ==
    Purchased =>
        (EventsOf("RoyaltyPaid") # {}
            <=> \E i \in DOMAIN paid : paid[i].what = "royalty" /\ paid[i].amount > 0)

\* id is an element of sequence seq
InSeq(id, seq) == \E i \in DOMAIN seq : seq[i] = id

\* C23: after a successful purchase of id by b, id is in getUserArtworks(b);
\* and whenever no purchase is in progress, every asset is in the sequence
\* getUserArtworks returns for its owner.
C23_BuyerInOwnIndex ==
    /\ Purchased => InSeq(CallId, getUserArtworks(lastOp.caller))
    /\ pc = "idle" => \A id \in DOMAIN owners : InSeq(id, getUserArtworks(ownerOf(id)))

\* the sum of the balances bal of the accounts in set S
RECURSIVE SumBalances(_, _)
SumBalances(bal, S) ==
    IF S = {} THEN 0
    ELSE LET a == CHOOSE x \in S : TRUE IN bal[a] + SumBalances(bal, S \ {a})

\* C24: the sum of all balances is the same in every reachable state, and no
\* balance is negative; the contract's balance is 0 whenever no purchase is
\* in progress; after a successful purchase with payment p the amounts
\* transferred sum to p, every account's balance is its balance before the
\* call plus what was transferred to it, minus p for the buyer, and the
\* contract's balance is as before the call; after a failed purchase every
\* balance is as before the call.
C24_NoFundsRetained ==
    /\ SumBalances(balances, Accounts) = Cardinality(Users) * InitBalance
    /\ \A a \in Accounts : balances[a] >= 0
    /\ pc = "idle" => balances[Registry] = 0
    /\ Purchased =>
          /\ SumBalances([u \in Accounts |-> SumTo(paid, u)], Accounts \ {Registry})
                = lastOp.args[2]
          /\ \A u \in Accounts \ {Registry} :
                balances[u] = snap.balances[u] + SumTo(paid, u)
                              - (IF u = lastOp.caller THEN lastOp.args[2] ELSE 0)
          /\ balances[Registry] = snap.balances[Registry]
    /\ (lastOp.op = "purchaseArtwork" /\ lastOp.err \notin {"ok", "pending"}) =>
          balances = snap.balances

\* a secondary sale in which buyer, seller and creator are three accounts and
\* the administrator is paid a fee
C24_Witness ==
    /\ Purchased
    /\ Len(paid) = 3
    /\ Cardinality({lastOp.caller, snap.owners[CallId], snap.artworks[CallId].artist}) = 3
    /\ \A i \in DOMAIN paid : paid[i].amount > 0
    /\ balances[lastOp.caller] = snap.balances[lastOp.caller] - lastOp.args[2]

\* the royalty and the fee of the purchase in lastOp, from the state it began in
RoyaltyDue ==
    IF snap.owners[CallId] # snap.artworks[CallId].artist
    THEN (lastOp.args[2] * snap.artworks[CallId].royaltyPercentage) \div 100
    ELSE 0
FeeDue == (lastOp.args[2] * snap.platformFee) \div 1000
\* the purchase in lastOp passed its requires
Admitted ==
    /\ lastOp.op = "purchaseArtwork"
    /\ lastOp.err \in {"pending", "ok", "TransferFailed", "Panic"}

\* C25: a purchase whose royalty plus fee exceed the payment never gets as far
\* as the transfer to the seller and never succeeds, and when it has failed,
\* owner, storage, balances and log are as before the call; in every
\* successful purchase royalty + fee <= payment and the seller has been paid
\* payment - royalty - fee >= 0.
C25_RoyaltyPlusFeeWithinPayment ==
    /\ (Admitted /\ RoyaltyDue + FeeDue > lastOp.args[2]) =>
          /\ lastOp.err # "ok"
          /\ pc # "seller"
          /\ lastOp.err # "pending" => NothingChanged
    /\ Purchased =>
          /\ RoyaltyDue + FeeDue <= lastOp.args[2]
          /\ paid[Len(paid)] = [to |-> snap.owners[CallId],
                                amount |-> lastOp.args[2] - RoyaltyDue - FeeDue,
                                what |-> "seller"]
          /\ \A i \in DOMAIN paid : paid[i].amount >= 0

\* a secondary purchase of an asset with a royalty of 100 per cent has
\* failed at the fee transfer, after the whole payment went to the creator
C25_Witness ==
    /\ Admitted
    /\ snap.owners[CallId] # snap.artworks[CallId].artist
    /\ snap.artworks[CallId].royaltyPercentage = 100
    /\ RoyaltyDue = lastOp.args[2]
    /\ FeeDue > 0
    /\ lastOp.err = "TransferFailed"
    /\ lastOp.at = "fee"
    /\ owners[CallId] = snap.owners[CallId]

\* C26: an asset is for sale when a purchase of it is admitted and not for
\* sale when the purchase has succeeded; a call finds an asset not for
\* sale and leaves it for sale only if it is a successful updateArtworkPrice
\* for that asset called by its owner (or a safeTransferFrom from whose
\* callback such calls were made); and every purchase of an asset that is
\* not for sale fails and changes nothing.  So between two successful
\* purchases of an asset lies a relisting by its owner.
C26_RelistBetweenPurchases ==
    /\ Admitted => snap.artworks[CallId].forSale
    /\ Purchased => ~artworks[CallId].forSale
    /\ (lastOp.op # "none" /\ ~Composite) =>
          \A id \in DOMAIN snap.artworks :
              (~snap.artworks[id].forSale /\ artworks[id].forSale) =>
                  /\ lastOp.op = "updateArtworkPrice"
                  /\ lastOp.err = "ok"
                  /\ CallId = id
                  /\ lastOp.caller = snap.owners[id]
                  /\ lastOp.caller = owners[id]
    /\ (/\ lastOp.op = "purchaseArtwork"
        /\ CallId \in DOMAIN snap.artworks
        /\ ~snap.artworks[CallId].forSale) =>
          /\ lastOp.err = "NotForSale"
          /\ NothingChanged

\* the second sale of an asset: the asset is the only one there is, and an
\* earlier purchase has succeeded (balances are those of deployment until a
\* purchase succeeds, no other function moving ether, and a purchase that
\* fails restores them), so that purchase sold this asset and left it not for
\* sale; the asset was for sale again when this purchase began, at the price
\* of a relisting, and this purchase has sold it for its buyer of then
C26_Witness ==
    /\ Purchased
    /\ tokenIds = 1
    /\ snap.balances # [a \in Accounts |-> IF a \in Users THEN InitBalance ELSE 0]
    /\ snap.artworks[CallId].forSale
    /\ snap.owners[CallId] # artworks[CallId].artist
    /\ snap.artworks[CallId].price \in NewPrices \ Prices
    /\ lastOp.caller # snap.owners[CallId]
    /\ ~artworks[CallId].forSale

----------------------------------------------------------------------------
\* the sum of the ratings stored in a review sequence
RECURSIVE SumRatings(_)
SumRatings(seq) == IF seq = <<>> THEN 0 ELSE Head(seq).rating + SumRatings(Tail(seq))
\* the identities marked in hasRated for an asset
RatedBy(id) == {u \in Users : <<id, u>> \in hasRated}

\* C27: for every asset, totalRatings is the length of its review sequence and
\* the number of identities marked in hasRated for it, ratingSum is the sum of
\* the ratings stored in the sequence, totalRatings <= ratingSum <=
\* 5 * totalRatings, and the reviews stored when a call began are still
\* there, unchanged and in place (the stored sequence only grows at its end).
C27_ReviewAggregates ==
    /\ \A id \in DOMAIN artworks :
          /\ artworks[id].totalRatings = Len(reviews[id])
          /\ artworks[id].totalRatings = Cardinality(RatedBy(id))
          /\ artworks[id].ratingSum = SumRatings(reviews[id])
          /\ artworks[id].totalRatings <= artworks[id].ratingSum
          /\ artworks[id].ratingSum <= 5 * artworks[id].totalRatings
    /\ \A p \in hasRated : p[1] \in DOMAIN artworks
    /\ lastOp.op # "none" =>
          \A id \in DOMAIN snap.reviews : IsPrefix(snap.reviews[id], reviews[id])
\* an asset with two reviews of different ratings by different reviewers, the
\* second just added to the first
C27_Witness ==
    /\ lastOp.op = "addReview" /\ lastOp.err = "ok"
    /\ Len(reviews[CallId]) = 2
    /\ Len(snap.reviews[CallId]) = 1
    /\ reviews[CallId][1].rating # reviews[CallId][2].rating
    /\ artworks[CallId].ratingSum = 9

----------------------------------------------------------------------------
\* the number of places at which id stands in seq
Occurrences(id, seq) == Cardinality({i \in DOMAIN seq : seq[i] = id})
Ascending(seq) == \A i, j \in DOMAIN seq : i < j => seq[i] < seq[j]

\* C28: every existing asset id stands exactly once in the member list of the
\* gallery its record names, which is an active gallery, and in no other list;
\* every id in a member list is an existing asset; member lists are in ascending
\* id order; the list a gallery had when a call began is a prefix of the
\* list it has now; a key under which no gallery was created holds the default
\* record with an empty list, and getGalleryArtworks fails for it and returns
\* the member list for a created one, changing nothing.
C28_GalleryIndexConsistent ==
    /\ \A id \in DOMAIN artworks :
          /\ artworks[id].galleryId \in GalleryKeys
          /\ galleries[artworks[id].galleryId].isActive
          /\ \A g \in GalleryKeys :
                Occurrences(id, galleries[g].artworkIds) =
                    IF g = artworks[id].galleryId THEN 1 ELSE 0
    /\ \A g \in GalleryKeys :
          /\ \A i \in DOMAIN galleries[g].artworkIds :
                galleries[g].artworkIds[i] \in DOMAIN artworks
          /\ Ascending(galleries[g].artworkIds)
          /\ ~galleries[g].isActive => galleries[g] = NoGallery
    /\ lastOp.op # "none" =>
          \A g \in GalleryKeys :
              /\ IsPrefix(snap.galleries[g].artworkIds, galleries[g].artworkIds)
              /\ snap.galleries[g].isActive => galleries[g].isActive
    /\ lastOp.op = "getGalleryArtworks" =>
          /\ NothingChanged
          /\ IF galleries[CallId].isActive
             THEN lastOp.err = "ok" /\ lastOp.ret = galleries[CallId].artworkIds
             ELSE lastOp.err = "NotFound"
\* two galleries exist, two assets were created in one of them and none in the
\* other, and the member list of the first has just been read
C28_Witness ==
    /\ lastOp.op = "getGalleryArtworks" /\ lastOp.err = "ok"
    /\ \A g \in GalleryKeys \ {""} : galleries[g].isActive
    /\ Len(lastOp.ret) = 2
    /\ lastOp.ret = galleries[CallId].artworkIds
    /\ \E g \in GalleryKeys \ {CallId} :
          galleries[g].isActive /\ galleries[g].artworkIds = <<>>

=============================================================================
